---- MODULE Spec2Model ----
(***************************************************************************)
(* Research_tool backend: document upload, signal-quality gating, analysis *)
(* orchestration and result normalisation.                                 *)
(*                                                                         *)
(* A JavaScript string is a sequence of one-character strings, a Buffer a  *)
(* sequence of byte values, a decoded JSON value a tagged record.          *)
(***************************************************************************)
EXTENDS Integers, Sequences, FiniteSets, TLC

(***************************************************************************)
(* Strings                                                                 *)
(***************************************************************************)

\* The characters JavaScript's \s and String.prototype.trim treat as white
\* space, among the characters the inputs below are written in.
WS == {" ", "\t", "\n", "\r"}

Digits == <<"0","1","2","3","4","5","6","7","8","9">>

IsDigit(c) == \E k \in 1..10 : Digits[k] = c

DigitVal(c) == (CHOOSE k \in 1..10 : Digits[k] = c) - 1

UpperLetters == <<"A","B","C","D","E","F","G","H","I","J","K","L","M","N","O","P","Q","R","S","T","U","V","W","X","Y","Z">>

LowerLetters == <<"a","b","c","d","e","f","g","h","i","j","k","l","m","n","o","p","q","r","s","t","u","v","w","x","y","z">>

Min(a, b) == IF a <= b THEN a ELSE b

Max(a, b) == IF a >= b THEN a ELSE b

\* String.prototype.toLowerCase
toLowerCase(s) ==
  [i \in 1..Len(s) |->
     IF \E k \in 1..26 : UpperLetters[k] = s[i]
     THEN LowerLetters[CHOOSE k \in 1..26 : UpperLetters[k] = s[i]]
     ELSE s[i]]

\* String.prototype.trim
trim(s) ==
  LET kept(keep) ==
        IF keep = {} THEN <<>>
        ELSE SubSeq(s, CHOOSE i \in keep : \A j \in keep : i <= j,
                       CHOOSE i \in keep : \A j \in keep : i >= j)
  IN kept({i \in 1..Len(s) : s[i] \notin WS})

\* s has sub at index i (1-based)
HasAt(s, i, sub) ==
  /\ i >= 1
  /\ i + Len(sub) - 1 <= Len(s)
  /\ SubSeq(s, i, i + Len(sub) - 1) = sub

\* String.prototype.includes
includes(s, sub) == \E i \in 1..(Len(s) + 1) : HasAt(s, i, sub)

\* String.prototype.endsWith
endsWith(s, suf) == Len(suf) <= Len(s) /\ HasAt(s, Len(s) - Len(suf) + 1, suf)

\* String.prototype.slice(0, n)
slice0(s, n) == SubSeq(s, 1, Min(n, Len(s)))

\* The index after the longest run of characters of set cs starting at i.
RunEnd(s, i, cs) ==
  LET first(stops) ==
        IF stops = {} THEN Len(s) + 1 ELSE CHOOSE j \in stops : \A k \in stops : j <= k
  IN first({j \in i..Len(s) : s[j] \notin cs})

\* Array.prototype.join on strings
RECURSIVE join(_, _)
join(parts, sep) ==
  IF parts = <<>> THEN <<>>
  ELSE IF Len(parts) = 1 THEN parts[1]
  ELSE parts[1] \o sep \o join(Tail(parts), sep)

\* The value of a run of decimal digits.
RECURSIVE DecimalValue(_)
DecimalValue(ds) ==
  IF ds = <<>> THEN 0
  ELSE 10 * DecimalValue(SubSeq(ds, 1, Len(ds) - 1)) + DigitVal(ds[Len(ds)])

\* n copies of the character c
Rep(c, n) == [i \in 1..n |-> c]

(***************************************************************************)
(* Text Signal Estimator and text normalisation (server)                   *)
(***************************************************************************)

\* value.replace(/\r\n/g, "\n")
RECURSIVE replaceCrLf(_)
replaceCrLf(s) ==
  IF s = <<>> THEN <<>>
  ELSE IF HasAt(s, 1, <<"\r","\n">>) THEN <<"\n">> \o replaceCrLf(SubSeq(s, 3, Len(s)))
  ELSE <<s[1]>> \o replaceCrLf(Tail(s))

\* value.replace(/[ \t]+/g, " ")
RECURSIVE collapseBlanks(_)
collapseBlanks(s) ==
  IF s = <<>> THEN <<>>
  ELSE IF s[1] \in {" ", "\t"}
       THEN <<" ">> \o collapseBlanks(SubSeq(s, RunEnd(s, 1, {" ", "\t"}), Len(s)))
  ELSE <<s[1]>> \o collapseBlanks(Tail(s))

\* value.replace(/\n{3,}/g, "\n\n")
RECURSIVE collapseNewlines(_)
collapseNewlines(s) ==
  LET run(e) ==
        (IF e - 1 >= 3 THEN <<"\n","\n">> ELSE SubSeq(s, 1, e - 1)) \o collapseNewlines(SubSeq(s, e, Len(s)))
  IN IF s = <<>> THEN <<>>
     ELSE IF s[1] = "\n" THEN run(RunEnd(s, 1, {"\n"}))
     ELSE <<s[1]>> \o collapseNewlines(Tail(s))

normalizeExtractedText(value) ==
  trim(collapseNewlines(collapseBlanks(replaceCrLf(value))))

getSignalLength(value) == Cardinality({i \in 1..Len(value) : value[i] \notin WS})

\* value.split(/\s+/).length: one piece more than there are runs of white space
splitWsLength(s) ==
  1 + Cardinality({i \in 1..Len(s) : s[i] \in WS /\ (i = 1 \/ s[i - 1] \notin WS)})

\* value.split(/\s+/).filter(Boolean).length: the runs of non-white-space
splitWsWords(s) ==
  Cardinality({i \in 1..Len(s) : s[i] \notin WS /\ (i = 1 \/ s[i - 1] \in WS)})

(***************************************************************************)
(* Decoded JSON values                                                     *)
(***************************************************************************)

Undefined == [t |-> "undefined"]

JNull == [t |-> "null"]

JBool(b) == [t |-> "bool", b |-> b]

JNum(n) == [t |-> "num", n |-> n]

JStr(s) == [t |-> "str", s |-> s]

JArr(a) == [t |-> "arr", a |-> a]

\* o: a function from property names (strings) to values
JObj(o) == [t |-> "obj", o |-> o]

\* input?.key : undefined for null, undefined, and any value without the property
Get(v, key) ==
  IF v.t = "obj" /\ key \in DOMAIN v.o THEN v.o[key] ELSE Undefined

(***************************************************************************)
(* JSON Recovery Parser (analyzer)                                         *)
(***************************************************************************)

\* JSON.parse's white space
JsonWs == {" ", "\t", "\n", "\r"}

ParseFail == [ok |-> FALSE, pos |-> 0, val |-> Undefined]

ParseOk(p, v) == [ok |-> TRUE, pos |-> p, val |-> v]

SkipWs(s, i) == RunEnd(s, i, JsonWs)

\* A JSON string without escapes, its opening quote at i.
ParseString(s, i) ==
  LET closed(e, body) ==
        IF \E k \in 1..Len(body) : body[k] \in {"\n", "\t", "\r", "\\"}
        THEN ParseFail
        ELSE ParseOk(e + 1, JStr(body))
      closing(e) == closed(e, SubSeq(s, i + 1, e - 1))
      quoted(ends) ==
        IF ends = {} THEN ParseFail ELSE closing(CHOOSE j \in ends : \A k \in ends : j <= k)
  IN quoted({j \in (i + 1)..Len(s) : s[j] = "\""})

\* A JSON number: an integer without sign, fraction or exponent.
ParseNumber(s, i) ==
  LET digits(e) ==
        IF s[i] = "0" /\ e > i + 1 THEN ParseFail
        ELSE ParseOk(e, JNum(DecimalValue(SubSeq(s, i, e - 1))))
  IN digits(RunEnd(s, i, {Digits[k] : k \in 1..10}))

RECURSIVE ParseValue(_, _)
RECURSIVE ParseMembers(_, _, _)
RECURSIVE ParseElements(_, _, _)

\* The members of an object after "{" or ",", the first key expected at i.
ParseMembers(s, i, acc) ==
  LET after(n, more) ==
        IF n > Len(s) THEN ParseFail
        ELSE IF s[n] = "}" THEN ParseOk(n + 1, JObj(more))
        ELSE IF s[n] = "," THEN ParseMembers(s, n + 1, more)
        ELSE ParseFail
      member(key, v) ==
        IF ~v.ok THEN ParseFail ELSE after(SkipWs(s, v.pos), (key.val.s :> v.val) @@ acc)
      colon(key, c) ==
        IF c > Len(s) \/ s[c] # ":" THEN ParseFail ELSE member(key, ParseValue(s, c + 1))
      named(key) == IF ~key.ok THEN ParseFail ELSE colon(key, SkipWs(s, key.pos))
      keyAt(k) == IF k > Len(s) \/ s[k] # "\"" THEN ParseFail ELSE named(ParseString(s, k))
  IN keyAt(SkipWs(s, i))

\* The elements of an array after "[" or ",", the first value expected at i.
ParseElements(s, i, acc) ==
  LET after(n, more) ==
        IF n > Len(s) THEN ParseFail
        ELSE IF s[n] = "]" THEN ParseOk(n + 1, JArr(more))
        ELSE IF s[n] = "," THEN ParseElements(s, n + 1, more)
        ELSE ParseFail
      element(v) == IF ~v.ok THEN ParseFail ELSE after(SkipWs(s, v.pos), Append(acc, v.val))
  IN element(ParseValue(s, i))

ParseValue(s, i) ==
  LET object(j, k) ==
        IF k <= Len(s) /\ s[k] = "}" THEN ParseOk(k + 1, JObj(<<>>))
        ELSE ParseMembers(s, j + 1, <<>>)
      array(j, k) ==
        IF k <= Len(s) /\ s[k] = "]" THEN ParseOk(k + 1, JArr(<<>>))
        ELSE ParseElements(s, j + 1, <<>>)
      value(j) ==
        IF j > Len(s) THEN ParseFail
        ELSE IF s[j] = "{" THEN object(j, SkipWs(s, j + 1))
        ELSE IF s[j] = "[" THEN array(j, SkipWs(s, j + 1))
        ELSE IF s[j] = "\"" THEN ParseString(s, j)
        ELSE IF IsDigit(s[j]) THEN ParseNumber(s, j)
        ELSE IF HasAt(s, j, <<"n","u","l","l">>) THEN ParseOk(j + 4, JNull)
        ELSE IF HasAt(s, j, <<"t","r","u","e">>) THEN ParseOk(j + 4, JBool(TRUE))
        ELSE IF HasAt(s, j, <<"f","a","l","s","e">>) THEN ParseOk(j + 5, JBool(FALSE))
        ELSE ParseFail
  IN value(SkipWs(s, i))

\* JSON.parse: one value, white space around it, nothing else; a SyntaxError otherwise
JSONparse(s) ==
  LET whole(v) ==
        IF v.ok /\ SkipWs(s, v.pos) > Len(s) THEN [ok |-> TRUE, val |-> v.val]
        ELSE [ok |-> FALSE, val |-> Undefined]
  IN whole(ParseValue(s, 1))

\* trimmed.replace(/^```(?:json)?\s*/i, "")
stripLeadingFence(s) ==
  IF ~HasAt(s, 1, <<"`'","`'","`'">>) THEN s
  ELSE SubSeq(s, RunEnd(s, IF Len(s) >= 7 /\ toLowerCase(SubSeq(s, 4, 7)) = <<"j","s","o","n">> THEN 8 ELSE 4, WS),
              Len(s))

\* s.replace(/\s*```$/, ""): the closing fence and the white space before it
stripTrailingFence(s) ==
  IF ~endsWith(s, <<"`'","`'","`'">>) THEN s
  ELSE LET starts == {i \in 1..(Len(s) - 2) : \A j \in i..(Len(s) - 3) : s[j] \in WS}
       IN SubSeq(s, 1, (CHOOSE i \in starts : \A j \in starts : i <= j) - 1)

\* withoutFences.match(/\{[\s\S]*\}/): from the first "{" to the last "}" after it
braceMatch(s) ==
  LET none == [found |-> FALSE, text |-> <<>>]
      closed(a, closes) ==
        IF closes = {} THEN none
        ELSE [found |-> TRUE, text |-> SubSeq(s, a, CHOOSE i \in closes : \A j \in closes : i >= j)]
      opened(a) == closed(a, {i \in (a + 1)..Len(s) : s[i] = "}"})
      braces(opens) ==
        IF opens = {} THEN none ELSE opened(CHOOSE i \in opens : \A j \in opens : i <= j)
  IN braces({i \in 1..Len(s) : s[i] = "{"})

\* The errors parseJsonSafely ends with.
ErrEmptyOutput == <<"M","o","d","e","l"," ","r","e","t","u","r","n","e","d"," ","e","m","p","t","y"," ","o","u","t","p","u","t">>

ErrInvalidJson == <<"L","L","M"," ","o","u","t","p","u","t"," ","w","a","s"," ","n","o","t"," ","v","a","l","i","d"," ","J","S","O","N">>

\* The message of the SyntaxError JSON.parse throws.
ErrSyntax == <<"U","n","e","x","p","e","c","t","e","d"," ","t","o","k","e","n"," ","i","n"," ","J","S","O","N">>

Threw(kind, msg) == [ok |-> FALSE, kind |-> kind, message |-> msg, val |-> Undefined]

Returned(v) == [ok |-> TRUE, kind |-> "none", message |-> <<>>, val |-> v]

withoutFences(trimmed) == stripTrailingFence(stripLeadingFence(trimmed))

\* A throw is a record with ok = FALSE, a return one with ok = TRUE.
parseJsonSafely(raw) ==
  LET second(inner) ==
        IF inner.ok THEN Returned(inner.val) ELSE Threw("SyntaxError", ErrSyntax)
      caught(match) ==
        IF ~match.found THEN Threw("Error", ErrInvalidJson) ELSE second(JSONparse(match.text))
      first(text, direct) ==
        IF direct.ok THEN Returned(direct.val) ELSE caught(braceMatch(text))
      fenceless(text) == first(text, JSONparse(text))
      nonEmpty(trimmed) ==
        IF trimmed = <<>> THEN Threw("Error", ErrEmptyOutput)
        ELSE fenceless(withoutFences(trimmed))
  IN nonEmpty(trim(raw))
(***************************************************************************)
(* Result Normalizer (analyzer)                                            *)
(***************************************************************************)

toneAllowed == <<<<"o","p","t","i","m","i","s","t","i","c">>, <<"c","a","u","t","i","o","u","s">>, <<"d","e","f","e","n","s","i","v","e">>, <<"n","e","u","t","r","a","l">>, <<"p","e","s","s","i","m","i","s","t","i","c">>>>

confidenceAllowed == <<<<"h","i","g","h">>, <<"m","e","d","i","u","m">>, <<"l","o","w">>>>

\* Array.prototype.includes on an array of strings: strict equality
arrayIncludes(arr, v) == v.t = "str" /\ \E k \in 1..Len(arr) : arr[k] = v.s

\* The property names of a Result.
K_tone == <<"t","o","n","e">>

K_tone_summary == <<"t","o","n","e","_","s","u","m","m","a","r","y">>

K_confidence == <<"c","o","n","f","i","d","e","n","c","e">>

K_key_positives == <<"k","e","y","_","p","o","s","i","t","i","v","e","s">>

K_key_concerns == <<"k","e","y","_","c","o","n","c","e","r","n","s">>

K_forward_guidance == <<"f","o","r","w","a","r","d","_","g","u","i","d","a","n","c","e">>

K_revenue == <<"r","e","v","e","n","u","e">>

K_margin == <<"m","a","r","g","i","n">>

K_capex == <<"c","a","p","e","x">>

K_tax_rate == <<"t","a","x","_","r","a","t","e">>

K_capacity_utilization_trends == <<"c","a","p","a","c","i","t","y","_","u","t","i","l","i","z","a","t","i","o","n","_","t","r","e","n","d","s">>

K_growth_initiatives == <<"g","r","o","w","t","h","_","i","n","i","t","i","a","t","i","v","e","s">>

K_evidence_quotes == <<"e","v","i","d","e","n","c","e","_","q","u","o","t","e","s">>

K_missing_sections == <<"m","i","s","s","i","n","g","_","s","e","c","t","i","o","n","s">>

K_quote == <<"q","u","o","t","e">>

K_section == <<"s","e","c","t","i","o","n">>

\* The caps normalizeResult passes to normalizeStringArray, and normalizeEvidence's own.
MaxKeyItems == 6

MaxMissingSections == 12

MaxEvidence == 8

MinQuoteLength == 10

\* Tests the value as given, where the code tests it trimmed.
normalizeNullableStringTestsRaw(value) ==
  LET nullable(cleaned) ==
        IF cleaned = <<>>
           \/ toLowerCase(value.s) = <<"n","u","l","l">>
           \/ toLowerCase(value.s) = <<"n","o","t"," ","m","e","n","t","i","o","n","e","d">>
        THEN JNull
        ELSE JStr(cleaned)
  IN IF value.t # "str" THEN JNull ELSE nullable(trim(value.s))

normalizeNullableString(value) ==
  LET nullable(cleaned) ==
        IF cleaned = <<>>
           \/ toLowerCase(cleaned) = <<"n","u","l","l">>
           \/ toLowerCase(cleaned) = <<"n","o","t"," ","m","e","n","t","i","o","n","e","d">>
        THEN JNull
        ELSE JStr(cleaned)
  IN IF value.t # "str" THEN JNull ELSE nullable(trim(value.s))

normalizeStringArray(value, max) ==
  LET capped(kept) == JArr([i \in 1..Min(max, Len(kept)) |-> JStr(kept[i])])
      filtered(mapped) == capped(SelectSeq(mapped, LAMBDA item : item # <<>>))
      strings(arr) ==
        filtered([i \in 1..Len(arr) |-> IF arr[i].t = "str" THEN trim(arr[i].s) ELSE <<>>])
  IN strings(IF value.t = "arr" THEN value.a ELSE <<>>)

EvidenceItem(quote, section) == JObj((K_quote :> JStr(quote)) @@ (K_section :> JStr(section)))

evidenceSentinel == EvidenceItem(<<"N","o"," ","d","i","r","e","c","t"," ","q","u","o","t","e"," ","e","x","t","r","a","c","t","e","d">>, <<"N","/","A">>)

\* typeof item?.key === "string" ? item.key.trim() : ""
trimmedProperty(item, key) ==
  LET text(v) == IF v.t = "str" THEN trim(v.s) ELSE <<>>
  IN text(Get(item, key))

\* Keeps every entry that passes the filter, where the code keeps the first eight.
normalizeEvidenceKeepAll(value) ==
  LET result(cleaned) ==
        IF Len(cleaned) > 0
        THEN JArr([i \in 1..Len(cleaned) |-> EvidenceItem(cleaned[i].quote, cleaned[i].section)])
        ELSE JArr(<<evidenceSentinel>>)
      filtered(mapped) == result(SelectSeq(mapped, LAMBDA item : Len(item.quote) > MinQuoteLength))
      entries(arr) ==
        filtered([i \in 1..Len(arr) |->
                    [quote |-> trimmedProperty(arr[i], K_quote),
                     section |-> trimmedProperty(arr[i], K_section)]])
  IN entries(IF value.t = "arr" THEN value.a ELSE <<>>)

normalizeEvidence(value) ==
  LET result(cleaned) ==
        IF Len(cleaned) > 0
        THEN JArr([i \in 1..Len(cleaned) |-> EvidenceItem(cleaned[i].quote, cleaned[i].section)])
        ELSE JArr(<<evidenceSentinel>>)
      sliced(kept) == result(SubSeq(kept, 1, Min(MaxEvidence, Len(kept))))
      filtered(mapped) == sliced(SelectSeq(mapped, LAMBDA item : Len(item.quote) > MinQuoteLength))
      entries(arr) ==
        filtered([i \in 1..Len(arr) |->
                    [quote |-> trimmedProperty(arr[i], K_quote),
                     section |-> trimmedProperty(arr[i], K_section)]])
  IN entries(IF value.t = "arr" THEN value.a ELSE <<>>)

\* Accepts any string as a tone.
normalizeTonePassThrough(v) == IF v.t = "str" THEN v ELSE JStr(<<"n","e","u","t","r","a","l">>)

normalizeTone(v) == IF arrayIncludes(toneAllowed, v) THEN v ELSE JStr(<<"n","e","u","t","r","a","l">>)

normalizeConfidence(v) == IF arrayIncludes(confidenceAllowed, v) THEN v ELSE JStr(<<"l","o","w">>)

forwardGuidance(guidance) ==
  JObj(
    (K_revenue :> normalizeNullableString(Get(guidance, K_revenue)))
    @@ (K_margin :> normalizeNullableString(Get(guidance, K_margin)))
    @@ (K_capex :> normalizeNullableString(Get(guidance, K_capex)))
    @@ (K_tax_rate :> normalizeNullableString(Get(guidance, K_tax_rate))))

normalizeResult(input) ==
  JObj(
    (K_tone :> normalizeTone(Get(input, K_tone)))
    @@ (K_tone_summary :> normalizeNullableString(Get(input, K_tone_summary)))
    @@ (K_confidence :> normalizeConfidence(Get(input, K_confidence)))
    @@ (K_key_positives :> normalizeStringArray(Get(input, K_key_positives), MaxKeyItems))
    @@ (K_key_concerns :> normalizeStringArray(Get(input, K_key_concerns), MaxKeyItems))
    @@ (K_forward_guidance :> forwardGuidance(Get(input, K_forward_guidance)))
    @@ (K_capacity_utilization_trends :>
          normalizeNullableString(Get(input, K_capacity_utilization_trends)))
    @@ (K_growth_initiatives :> normalizeStringArray(Get(input, K_growth_initiatives), MaxKeyItems))
    @@ (K_evidence_quotes :> normalizeEvidence(Get(input, K_evidence_quotes)))
    @@ (K_missing_sections :> normalizeStringArray(Get(input, K_missing_sections), MaxMissingSections)))

isLikelyUnderfilled(result) ==
  LET weakArrays == Cardinality({k \in {K_key_positives, K_key_concerns, K_growth_initiatives} :
                                   Len(result.o[k].a) = 0})
      weakGuidance == \A k \in {K_revenue, K_margin, K_capex, K_tax_rate} :
                        result.o[K_forward_guidance].o[k] = JNull
  IN weakArrays >= 2 /\ weakGuidance

(***************************************************************************)
(* Quota-error classification (server)                                     *)
(***************************************************************************)

DigitChars == {Digits[k] : k \in 1..10}

\* Where /retry in\s+(\d+(?:\.\d+)?)s/i matches starting at i: the whole and the
\* fractional digits of its group, or found = FALSE.
retryInAt(m, i) ==
  LET none == [found |-> FALSE, int |-> <<>>, frac |-> <<>>]
      fraction(d, e, f) ==
        IF f = e + 1 \/ f > Len(m) \/ toLowerCase(<<m[f]>>) # <<"s">> THEN none
        ELSE [found |-> TRUE, int |-> SubSeq(m, d, e - 1), frac |-> SubSeq(m, e + 1, f - 1)]
      number(d, e) ==
        IF d = i + 8 \/ e = d \/ e > Len(m) THEN none
        ELSE IF toLowerCase(<<m[e]>>) = <<"s">>
             THEN [found |-> TRUE, int |-> SubSeq(m, d, e - 1), frac |-> <<>>]
        ELSE IF m[e] # "." THEN none
        ELSE fraction(d, e, RunEnd(m, e + 1, DigitChars))
      spaces(d) == number(d, RunEnd(m, d, DigitChars))
  IN IF ~(i + 7 <= Len(m) /\ toLowerCase(SubSeq(m, i, i + 7)) = <<"r","e","t","r","y"," ","i","n">>) THEN none
     ELSE spaces(RunEnd(m, i + 8, WS))

\* Where /retryDelay\\?":\\?"(\d+)s/i matches starting at i: the digits of its group.
retryDelayAt(m, i) ==
  LET none == [found |-> FALSE, int |-> <<>>]
      digits(b, e) ==
        IF e = b + 1 \/ e > Len(m) \/ toLowerCase(<<m[e]>>) # <<"s">> THEN none
        ELSE [found |-> TRUE, int |-> SubSeq(m, b + 1, e - 1)]
      quote(b) == IF ~HasAt(m, b, <<"\"">>) THEN none ELSE digits(b, RunEnd(m, b + 1, DigitChars))
      colon(a) ==
        IF ~HasAt(m, a, <<"\"",":">>) THEN none
        ELSE quote(IF HasAt(m, a + 2, <<"\\">>) THEN a + 3 ELSE a + 2)
  IN IF ~(i + 9 <= Len(m) /\ toLowerCase(SubSeq(m, i, i + 9)) = <<"r","e","t","r","y","d","e","l","a","y">>) THEN none
     ELSE colon(IF HasAt(m, i + 10, <<"\\">>) THEN i + 11 ELSE i + 10)

\* Math.ceil(Number(text)) of the decimal int.frac
ceilNumber(int, frac) ==
  DecimalValue(int) + (IF \E k \in 1..Len(frac) : frac[k] # "0" THEN 1 ELSE 0)

\* The least element of a set of positions.
First(S) == CHOOSE i \in S : \A j \in S : i <= j

extractRetryAfterSeconds(message) ==
  LET seconds(g) == JNum(Max(1, ceilNumber(g.int, g.frac)))
      delay(g) == JNum(DecimalValue(g.int))
      retryDelay(delays) ==
        IF delays # {} THEN delay(retryDelayAt(message, First(delays))) ELSE JNull
      retryIn(ins) ==
        IF ins # {} THEN seconds(retryInAt(message, First(ins)))
        ELSE retryDelay({i \in 1..Len(message) : retryDelayAt(message, i).found})
  IN IF message = <<>> THEN JNull
     ELSE retryIn({i \in 1..Len(message) : retryInAt(message, i).found})

QuotaMessage == <<"G","e","m","i","n","i"," ","A","P","I"," ","q","u","o","t","a","/","r","a","t","e"," ","l","i","m","i","t"," ","r","e","a","c","h","e","d","."," ","R","e","t","r","y"," ","a","f","t","e","r"," ","t","h","e"," ","c","o","o","l","d","o","w","n"," ","o","r"," ","u","s","e"," ","a"," ","b","i","l","l","e","d"," ","A","P","I"," ","k","e","y","/","m","o","d","e","l"," ","w","i","t","h"," ","h","i","g","h","e","r"," ","l","i","m","i","t","s",".">>

NoQuota == [quota |-> FALSE, message |-> <<>>, retryAfterSeconds |-> JNull]

\* Looks for the signature in the message as given, where the code lowers its case.
parseGeminiQuotaErrorCaseSensitive(message) ==
  IF ~(includes(message, <<"4","2","9">>)
       \/ includes(message, <<"q","u","o","t","a"," ","e","x","c","e","e","d","e","d">>)
       \/ includes(message, <<"t","o","o"," ","m","a","n","y"," ","r","e","q","u","e","s","t","s">>)
       \/ includes(message, <<"r","a","t","e"," ","l","i","m","i","t">>))
  THEN NoQuota
  ELSE [quota |-> TRUE, message |-> QuotaMessage,
        retryAfterSeconds |-> extractRetryAfterSeconds(message)]

\* message: String(error?.message || "")
parseGeminiQuotaError(message) ==
  LET looksLikeQuota(lower) ==
        \/ includes(message, <<"4","2","9">>)
        \/ includes(lower, <<"q","u","o","t","a"," ","e","x","c","e","e","d","e","d">>)
        \/ includes(lower, <<"t","o","o"," ","m","a","n","y"," ","r","e","q","u","e","s","t","s">>)
        \/ includes(lower, <<"r","a","t","e"," ","l","i","m","i","t">>)
  IN IF ~looksLikeQuota(toLowerCase(message)) THEN NoQuota
     ELSE [quota |-> TRUE, message |-> QuotaMessage,
           retryAfterSeconds |-> extractRetryAfterSeconds(message)]

\* The catch block of POST /api/analyze: the response an error with this message gets.
analyzeErrorResponse(message) ==
  LET response(quota) ==
        IF quota.quota
        THEN [status |-> 429, error |-> quota.message,
              retryAfterSeconds |-> quota.retryAfterSeconds]
        ELSE [status |-> 500,
              error |-> IF message # <<>> THEN message ELSE <<"A","n","a","l","y","s","i","s"," ","f","a","i","l","e","d">>,
              retryAfterSeconds |-> Undefined]
  IN response(parseGeminiQuotaError(message))

(***************************************************************************)
(* Buffers                                                                 *)
(***************************************************************************)

\* The characters of the uploaded text files and their byte values.
AsciiChars == <<" ","\t","\n","\r","a","b","c">>

AsciiCodes == <<32, 9, 10, 13, 97, 98, 99>>

\* buffer.toString("utf-8") of a buffer of these bytes
utf8Decode(bytes) ==
  [i \in 1..Len(bytes) |-> AsciiChars[CHOOSE k \in 1..Len(AsciiCodes) : AsciiCodes[k] = bytes[i]]]

\* The bytes of a text of these characters.
utf8Encode(text) ==
  [i \in 1..Len(text) |-> AsciiCodes[CHOOSE k \in 1..Len(AsciiChars) : AsciiChars[k] = text[i]]]

\* The base64 padding character "=", the other characters being their 6-bit values.
B64Pad == 64

\* buffer.toString("base64")
RECURSIVE toBase64(_)
toBase64(b) ==
  IF Len(b) = 0 THEN <<>>
  ELSE IF Len(b) = 1
       THEN <<b[1] \div 4, (b[1] % 4) * 16, B64Pad, B64Pad>>
  ELSE IF Len(b) = 2
       THEN <<b[1] \div 4, (b[1] % 4) * 16 + b[2] \div 16, (b[2] % 16) * 4, B64Pad>>
  ELSE <<b[1] \div 4, (b[1] % 4) * 16 + b[2] \div 16,
         (b[2] % 16) * 4 + b[3] \div 64, b[3] % 64>>
       \o toBase64(SubSeq(b, 4, Len(b)))

\* Buffer.from(data, "base64")
RECURSIVE fromBase64(_)
fromBase64(d) ==
  LET bytes(s) ==
        IF Len(s) < 2 THEN <<>>
        ELSE IF Len(s) = 2 THEN <<s[1] * 4 + s[2] \div 16>>
        ELSE IF Len(s) = 3
             THEN <<s[1] * 4 + s[2] \div 16, (s[2] % 16) * 16 + s[3] \div 4>>
        ELSE <<s[1] * 4 + s[2] \div 16, (s[2] % 16) * 16 + s[3] \div 4, (s[3] % 4) * 64 + s[4]>>
             \o fromBase64(SubSeq(s, 5, Len(s)))
  IN bytes(SelectSeq(d, LAMBDA c : c # B64Pad))

(***************************************************************************)
(* Configuration read from the environment                                 *)
(***************************************************************************)

\* MAX_INPUT_CHARS
maxInputChars == 60

\* MIN_ANALYSIS_SIGNAL (the default)
minAnalysisSignal == 40

\* MAX_MULTIMODAL_BYTES
maxMultimodalBytes == 4

\* MIN_TEXT_SIGNAL (the default)
minTextSignal == 120

\* runOptionBAnalysis: the least length of the trimmed text that counts as text,
\* and the length under which the prompt carries the low-signal note
minTextLength == 10

lowSignalLength == 400

\* What a deployment sets: GEMINI_API_KEY present, ENABLE_OCR_RECOVERY_ON_ANALYZE,
\* ENABLE_OCR_ON_UPLOAD, ANALYZER_RETRY_ON_UNDERFILLED, MAX_MULTIMODAL_DOCS.
Environments ==
  { [apiKey |-> TRUE, enableOcrRecoveryOnAnalyze |-> FALSE, enableOcrOnUpload |-> FALSE,
     retryUnderfilled |-> TRUE, maxMultimodalDocs |-> 1],
    [apiKey |-> TRUE, enableOcrRecoveryOnAnalyze |-> TRUE, enableOcrOnUpload |-> FALSE,
     retryUnderfilled |-> FALSE, maxMultimodalDocs |-> 2],
    [apiKey |-> TRUE, enableOcrRecoveryOnAnalyze |-> FALSE, enableOcrOnUpload |-> TRUE,
     retryUnderfilled |-> FALSE, maxMultimodalDocs |-> 1],
    [apiKey |-> FALSE, enableOcrRecoveryOnAnalyze |-> TRUE, enableOcrOnUpload |-> TRUE,
     retryUnderfilled |-> FALSE, maxMultimodalDocs |-> 1] }

(***************************************************************************)
(* Inputs: uploaded files and what the outside world answers               *)
(***************************************************************************)

\* What pdf-parse or mammoth does with a file's bytes.
LibText(text) == [throws |-> FALSE, text |-> text]

LibThrows == [throws |-> TRUE, text |-> <<>>]

File(name, mimetype, buffer, lib) ==
  [originalname |-> name, mimetype |-> mimetype, buffer |-> buffer,
   size |-> Len(buffer), lib |-> lib]

MimePdf == <<"a","p","p","l","i","c","a","t","i","o","n","/","p","d","f">>

MimeText == <<"t","e","x","t","/","p","l","a","i","n">>

MimeDocx == <<"a","p","p","l","i","c","a","t","i","o","n","/","v","n","d",".","o","p","e","n","x","m","l","f","o","r","m","a","t","s","-","o","f","f","i","c","e","d","o","c","u","m","e","n","t",".","w","o","r","d","p","r","o","c","e","s","s","i","n","g","m","l",".","d","o","c","u","m","e","n","t">>

\* A text PDF with 46 characters of signal.
pdfStrong ==
  File(<<"a",".","p","d","f">>, MimePdf, <<37, 80, 68>>,
       LibText(<<"Q","1"," ","r","e","v","e","n","u","e"," ","g","r","e","w"," ","5","%",",","\r","\n","\r","\n","\r","\n","\r","\n","m","a","r","g","i","n"," "," ","u","p","\t","1","5","0"," ","b","p","s",";"," ","c","a","p","e","x"," ","f","l","a","t"," ","a","t"," ","2","b","n",".">>))

\* Two text PDFs with 21 and 23 characters of signal.
pdfHalfA == File(<<"b",".","p","d","f">>, MimePdf, <<37, 80>>, LibText(<<"R","e","v","e","n","u","e"," ","u","p"," ","5","%"," ","i","n"," ","Q","1"," ","t","o"," ","2","b","n",".">>))

pdfHalfB == File(<<"c",".","P","D","F">>, MimePdf, <<37>>, LibText(<<"N","e","t"," ","d","e","b","t"," ","f","e","l","l"," ","t","o"," ","1",".","2","b","n"," ","i","n"," ","F","Y",".">>))

\* A scanned PDF that pdf-parse fails on, its size the byte cap.
pdfScan == File(<<"d",".","p","d","f">>, MimePdf, <<37, 80, 68, 70>>, LibThrows)

\* A scanned PDF over the byte cap, with no text.
pdfBig == File(<<"e",".","p","d","f">>, MimePdf, <<37, 80, 68, 70, 45>>, LibText(<<>>))

\* A PDF by its name only, uploaded under a generic type: no payload is retained.
pdfByName ==
  File(<<"f",".","p","d","f">>, <<"a","p","p","l","i","c","a","t","i","o","n","/","o","c","t","e","t","-","s","t","r","e","a","m">>, <<37, 80, 68>>, LibText(<<"C","a","l","l"," ","n","o","t","e","s",":"," ","Q","1",".">>))

txtMessy == File(<<"h",".","t","x","t">>, MimeText, utf8Encode(<<" ","a"," ","\r","\n","\n","\n","\n"," ","b","\t","\r","c"," ">>), LibThrows)

docxGood == File(<<"i",".","d","o","c","x">>, MimeDocx, <<80, 75>>, LibText(<<"C","a","p","e","x"," ","f","l","a","t",".","\r","\n">>))

docxBad == File(<<"j",".","d","o","c","x">>, MimeDocx, <<80>>, LibThrows)

zipFile == File(<<"k",".","z","i","p">>, <<"a","p","p","l","i","c","a","t","i","o","n","/","z","i","p">>, <<80, 75, 3>>, LibThrows)

\* The multipart bodies of the upload requests.
UploadRequests ==
  { <<>>,
    <<docxBad>>,
    <<pdfHalfA, pdfHalfB>>,
    <<pdfBig, pdfScan>>,
    <<pdfByName, pdfScan>>,
    <<pdfStrong, zipFile>>,
    <<txtMessy, docxGood>> }

\* What the OCR model reads in a PDF, when it answers in time.
OcrTexts ==
  { <<"V","o","l","u","m","e"," ","g","r","o","w","t","h"," ","u","p"," ","5","%"," ","[","c","i","t","e",":"," ","1","2","]",";","\r","\n","\r","\n","\r","\n","\r","\n"," ","m","a","r","g","i","n"," ","g","u","i","d","a","n","c","e"," ","1","5","0","-","2","0","0"," ","b","p","s","."," "," ">> }

\* The raw answers of the analysis model.
rawFilled == <<"{","\"","t","o","n","e","\"",":","\"","c","a","u","t","i","o","u","s","\"",",","\"","k","e","y","_","p","o","s","i","t","i","v","e","s","\"",":","[","\""," ","V","o","l","u","m","e"," ","u","p"," ","5","%"," ","\"","]",",","\"","f","o","r","w","a","r","d","_","g","u","i","d","a","n","c","e","\"",":","{","\"","m","a","r","g","i","n","\"",":","\"","1","5","0","-","2","0","0"," ","b","p","s","\"","}","}">>

rawUnderfilled == <<"`'","`'","`'","j","s","o","n","\n","{","\"","t","o","n","e","\"",":","\"","U","p","b","e","a","t","\"",",","\"","k","e","y","_","c","o","n","c","e","r","n","s","\"",":","[","\"","S","o","f","t"," ","q","u","a","r","t","e","r","\"","]",",","\"","f","o","r","w","a","r","d","_","g","u","i","d","a","n","c","e","\"",":","{","\"","c","a","p","e","x","\"",":","\"","N","o","t"," ","m","e","n","t","i","o","n","e","d","\"","}","}","\n","`'","`'","`'">>

rawBraces == <<"S","o","r","r","y",":"," ","{","n","o"," ","d","a","t","a","}">>

\* The messages of the errors the analysis model's client throws.
errQuota == <<"[","4","2","9"," ","T","o","o"," ","M","a","n","y"," ","R","e","q","u","e","s","t","s","]"," ","Q","u","o","t","a"," ","e","x","c","e","e","d","e","d","."," ","P","l","e","a","s","e"," ","r","e","t","r","y"," ","i","n"," ","5","0",".","4","1","7","9","6","8","0","3","8","s">>

ModelOutcomes ==
  { [throws |-> FALSE, raw |-> rawFilled, message |-> <<>>],
    [throws |-> FALSE, raw |-> rawUnderfilled, message |-> <<>>],
    [throws |-> FALSE, raw |-> rawBraces, message |-> <<>>],
    [throws |-> TRUE, raw |-> <<>>, message |-> errQuota] }

\* The bounds of the model: documents stored and analysis runs stored.
MaxDocs == 2

MaxRuns == 2

(***************************************************************************)
(* State                                                                   *)
(***************************************************************************)

VARIABLES
  env,           \* the deployment's flags
  documents,     \* the Document Store: documents[id], in insertion order
  cloud,         \* remote storage: cloud[url] the bytes uploaded under that URL
  analysisRuns,  \* the Run Store: analysisRuns[runId], in insertion order
  now,           \* the clock new Date() reads
  up,            \* the POST /api/upload request in progress, or its response
  an,            \* the POST /api/analyze request in progress, or its response
  got,           \* the response of the last GET /api/result/:runId
  fn             \* a function applied to one input, and how far it has got

vars == <<env, documents, cloud, analysisRuns, now, up, an, got, fn>>

serverVars == <<env, documents, cloud, analysisRuns, now, up, an, got>>

NoResponse == [status |-> 0]

\* MAX_MULTIMODAL_DOCS, as the deployment sets it
maxMultimodalDocs == env.maxMultimodalDocs

(***************************************************************************)
(* Documents (server)                                                      *)
(***************************************************************************)

maskDocument(doc) ==
  [id |-> doc.id, name |-> doc.name, mimetype |-> doc.mimetype, size |-> doc.size,
   uploadedAt |-> doc.uploadedAt, cloudinary |-> doc.cloudinary,
   textChars |-> doc.textChars, textWords |-> doc.textWords,
   textPreview |-> slice0(doc.text, 220)]

isPdfDoc(doc) == endsWith(toLowerCase(doc.name), <<".","p","d","f">>) \/ includes(doc.mimetype, <<"p","d","f">>)

isWeakPdfDoc(doc) == isPdfDoc(doc) /\ getSignalLength(doc.text) < minAnalysisSignal

\* textExtraction.js isWeakText
isWeakText(value) == getSignalLength(value) < minTextSignal

\* What extractTextFromPdfBufferWithGemini can return for these bytes: the empty
\* string (no key, no bytes, a failed or timed-out call) or the text the model read.
OcrResults(buffer) ==
  IF ~env.apiKey \/ Len(buffer) = 0 THEN {<<>>} ELSE OcrTexts \cup {<<>>}

\* What extractTextFromBuffer can end with for a file: a text, or an error.
ExtractResults(file) ==
  LET ofPdf(extracted) ==
        IF isWeakText(extracted) /\ env.enableOcrOnUpload
        THEN {Returned(IF ocrText # <<>> THEN ocrText ELSE extracted) :
                ocrText \in OcrResults(file.buffer)}
        ELSE {Returned(extracted)}
      ofType(name, type) ==
        IF endsWith(name, <<".","t","x","t">>) \/ includes(type, <<"t","e","x","t","/","p","l","a","i","n">>)
        THEN {Returned(utf8Decode(file.buffer))}
        ELSE IF endsWith(name, <<".","p","d","f">>) \/ includes(type, <<"p","d","f">>)
        THEN ofPdf(IF file.lib.throws THEN <<>> ELSE file.lib.text)
        ELSE IF endsWith(name, <<".","d","o","c","x">>) \/ includes(type, <<"w","o","r","d","p","r","o","c","e","s","s","i","n","g","m","l",".","d","o","c","u","m","e","n","t">>)
        THEN IF file.lib.throws THEN {Threw("Error", <<"m","a","m","m","o","t","h"," ","f","a","i","l","e","d">>)}
             ELSE {Returned(file.lib.text)}
        ELSE {Threw("Error", <<"U","n","s","u","p","p","o","r","t","e","d"," ","f","i","l","e"," ","t","y","p","e"," ","f","o","r"," ">> \o file.originalname \o <<"."," ","U","s","e"," ","P","D","F",","," ","D","O","C","X",","," ","o","r"," ","T","X","T",".">>)}
  IN ofType(toLowerCase(file.originalname), file.mimetype)

\* Counts the pieces of the empty text too, where the code gives 0.
newDocumentCountWords(id, file, text, url, at) ==
  LET document(normalizedText) ==
        [id |-> id, name |-> file.originalname, mimetype |-> file.mimetype,
         size |-> file.size, uploadedAt |-> at,
         text |-> normalizedText, textChars |-> Len(normalizedText),
         textWords |-> splitWsLength(normalizedText),
         cloudinary |-> [url |-> url, publicId |-> url, resourceType |-> <<"r","a","w">>],
         sourceForAnalysis |->
           IF includes(file.mimetype, <<"p","d","f">>) /\ getSignalLength(normalizedText) < minAnalysisSignal
           THEN [t |-> "obj", mimeType |-> file.mimetype, data |-> toBase64(file.buffer)]
           ELSE JNull]
  IN document(normalizeExtractedText(text))

\* The Document POST /api/upload builds from a file, its extracted text and its
\* place in remote storage.
newDocument(id, file, text, url, at) ==
  LET document(normalizedText) ==
        [id |-> id, name |-> file.originalname, mimetype |-> file.mimetype,
         size |-> file.size, uploadedAt |-> at,
         text |-> normalizedText, textChars |-> Len(normalizedText),
         textWords |-> IF normalizedText # <<>> THEN splitWsLength(normalizedText) ELSE 0,
         cloudinary |-> [url |-> url, publicId |-> url, resourceType |-> <<"r","a","w">>],
         sourceForAnalysis |->
           IF includes(file.mimetype, <<"p","d","f">>) /\ getSignalLength(normalizedText) < minAnalysisSignal
           THEN [t |-> "obj", mimeType |-> file.mimetype, data |-> toBase64(file.buffer)]
           ELSE JNull]
  IN document(normalizeExtractedText(text))

\* What getDocumentBuffer can end with: the retained payload decoded, or what the
\* download of the remote copy gives (its bytes, or an error thrown).
BufferResults(doc) ==
  IF doc.sourceForAnalysis # JNull /\ doc.sourceForAnalysis.data # <<>>
  THEN {[ok |-> TRUE, retained |-> TRUE, buffer |-> fromBase64(doc.sourceForAnalysis.data)]}
  ELSE {[ok |-> TRUE, retained |-> FALSE, buffer |-> cloud[doc.cloudinary.url]],
        [ok |-> FALSE, retained |-> FALSE, buffer |-> <<>>]}

\* Drops the retained payload with the text it replaces.
recoveredDropsPayload(doc, buf, ocrText) ==
  LET replaced(normalizedText) ==
        IF ~buf.ok \/ Len(buf.buffer) = 0 \/ normalizedText = <<>> THEN doc
        ELSE [doc EXCEPT !.text = normalizedText,
                         !.textChars = Len(normalizedText),
                         !.textWords = splitWsWords(normalizedText),
                         !.sourceForAnalysis = JNull]
  IN replaced(normalizeExtractedText(ocrText))

\* The document recoverWeakPdfDocuments leaves after one pass of its loop body.
recovered(doc, buf, ocrText) ==
  LET replaced(normalizedText) ==
        IF ~buf.ok \/ Len(buf.buffer) = 0 \/ normalizedText = <<>> THEN doc
        ELSE [doc EXCEPT !.text = normalizedText,
                         !.textChars = Len(normalizedText),
                         !.textWords = splitWsWords(normalizedText)]
  IN replaced(normalizeExtractedText(ocrText))

\* Attaches the bytes whatever their number.
partsForAnySize(doc, buf) ==
  IF ~buf.ok \/ Len(buf.buffer) = 0 THEN <<>>
  ELSE << [text |-> <<"S","o","u","r","c","e"," ","D","o","c","u","m","e","n","t",":"," ">> \o doc.name],
          [inlineData |-> [mimeType |-> MimePdf, data |-> toBase64(buf.buffer)]] >>

\* The parts buildDocumentParts adds after one pass of its loop body.
partsFor(doc, buf) ==
  IF ~buf.ok \/ Len(buf.buffer) = 0 \/ Len(buf.buffer) > maxMultimodalBytes THEN <<>>
  ELSE << [text |-> <<"S","o","u","r","c","e"," ","D","o","c","u","m","e","n","t",":"," ">> \o doc.name],
          [inlineData |-> [mimeType |-> MimePdf, data |-> toBase64(buf.buffer)]] >>

(***************************************************************************)
(* POST /api/upload                                                        *)
(***************************************************************************)

UpIdle(response) == [pc |-> "idle", files |-> <<>>, k |-> 0, uploaded |-> <<>>, response |-> response]

\* The request arrives: 400 without files, else the loop over the files starts.
UploadBegin ==
  /\ up.pc = "idle"
  /\ \E files \in UploadRequests :
       /\ Len(documents) + Len(files) <= MaxDocs
       /\ up' = IF Len(files) = 0
                THEN UpIdle([status |-> 400, error |-> <<"N","o"," ","f","i","l","e","s"," ","p","r","o","v","i","d","e","d">>])
                ELSE [pc |-> "files", files |-> files, k |-> 1, uploaded |-> <<>>,
                      response |-> NoResponse]
  /\ UNCHANGED <<env, documents, cloud, analysisRuns, now, an, got, fn>>

\* Takes the request's earlier documents out of the store before it answers.
uploadFailsRollingBack(message) ==
  /\ up' = UpIdle([status |-> 500, error |-> message])
  /\ documents' = SubSeq(documents, 1, Len(documents) - Len(up.uploaded))
  /\ UNCHANGED <<cloud, now>>

\* Lines 88-91: the error is answered with 500; the store is left as it is.
uploadFails(message) ==
  /\ up' = UpIdle([status |-> 500, error |-> message])
  /\ UNCHANGED <<documents, cloud, now>>

\* One pass of the loop: extraction, remote storage, then the document is stored;
\* an error of either ends the request with 500, the last file with 201.
UploadFile ==
  /\ up.pc = "files"
  /\ \E ext \in ExtractResults(up.files[up.k]), stored \in BOOLEAN :
       IF ~ext.ok THEN uploadFails(ext.message)
       ELSE IF ~stored THEN uploadFails(<<"C","l","o","u","d","i","n","a","r","y"," ","u","p","l","o","a","d"," ","f","a","i","l","e","d">>)
       ELSE \E doc \in {newDocument(Len(documents) + 1, up.files[up.k], ext.val, Len(cloud) + 1, now)} :
              /\ documents' = Append(documents, doc)
              /\ cloud' = Append(cloud, up.files[up.k].buffer)
              /\ now' = now + 1
              /\ up' = IF up.k = Len(up.files)
                       THEN UpIdle([status |-> 201,
                                    documents |-> Append(up.uploaded, maskDocument(doc))])
                       ELSE [up EXCEPT !.k = @ + 1, !.uploaded = Append(@, maskDocument(doc))]
  /\ UNCHANGED <<env, analysisRuns, an, got, fn>>

(***************************************************************************)
(* POST /api/analyze and runOptionBAnalysis                                *)
(***************************************************************************)

NoPrompt == [transcriptText |-> <<>>, lowSignal |-> FALSE, hasAttachedDocs |-> FALSE,
             strict |-> FALSE]

AnIdle ==
  [pc |-> "idle", selected |-> <<>>, weak |-> <<>>, pdfDocs |-> <<>>, j |-> 0,
   extractedOnly |-> <<>>, signal |-> 0, built |-> FALSE, parts |-> <<>>,
   prompt |-> NoPrompt, calls |-> <<>>, result |-> Undefined, warned |-> <<>>,
   response |-> NoResponse]

\* The bodies of the analyze requests when n documents are stored: documentIds
\* missing, empty, unknown, in and out of order, repeated.
AnalyzeRequests(n) ==
  LET Body(ids) == [isArray |-> TRUE, documentIds |-> ids]
  IN {[isArray |-> FALSE, documentIds |-> <<>>], Body(<<>>), Body(<<n + 1>>), Body(<<n + 1, 1>>)}
     \cup {Body(<<i>>) : i \in 1..n}
     \cup {Body(<<t[1], t[2]>>) : t \in {u \in (1..n) \X (1..n) : u[1] # u[2]}}

\* The request ends with this response.
Respond(a, response) == [a EXCEPT !.pc = "idle", !.response = response]

InsufficientMessage == <<"N","o"," ","r","e","a","d","a","b","l","e"," ","t","r","a","n","s","c","r","i","p","t"," ","c","o","n","t","e","n","t"," ","f","o","u","n","d"," ","a","f","t","e","r"," ","e","x","t","r","a","c","t","i","o","n"," ","a","n","d"," ","O","C","R"," ","f","a","l","l","b","a","c","k",","," ","a","n","d"," ","s","o","u","r","c","e"," ","f","i","l","e","s"," ","c","o","u","l","d"," ","n","o","t"," ","b","e"," ","a","t","t","a","c","h","e","d"," ","f","o","r"," ","m","u","l","t","i","m","o","d","a","l"," ","a","n","a","l","y","s","i","s",".">>

insufficientDetails(selected, docs) ==
  [i \in 1..Len(selected) |->
     [id |-> docs[selected[i]].id, name |-> docs[selected[i]].name,
      textChars |-> docs[selected[i]].textChars,
      textPreview |-> slice0(docs[selected[i]].text, 120)]]

NoTextNotice == <<"N","o"," ","r","e","l","i","a","b","l","e"," ","e","x","t","r","a","c","t","e","d"," ","t","r","a","n","s","c","r","i","p","t"," ","t","e","x","t"," ","i","s"," ","a","v","a","i","l","a","b","l","e","."," ","A","n","a","l","y","z","e"," ","t","h","e"," ","a","t","t","a","c","h","e","d"," ","s","o","u","r","c","e"," ","d","o","c","u","m","e","n","t"," ","f","i","l","e","s"," ","d","i","r","e","c","t","l","y",".">>

ErrNoKey == <<"G","E","M","I","N","I","_","A","P","I","_","K","E","Y"," ","i","s"," ","m","i","s","s","i","n","g">>

ErrTooLittle == <<"T","r","a","n","s","c","r","i","p","t"," ","e","x","t","r","a","c","t","i","o","n"," ","r","e","t","u","r","n","e","d"," ","t","o","o"," ","l","i","t","t","l","e"," ","t","e","x","t","."," ","U","p","l","o","a","d"," ","a"," ","t","e","x","t","-","b","a","s","e","d"," ","t","r","a","n","s","c","r","i","p","t"," ","(","P","D","F","/","D","O","C","X","/","T","X","T"," ","w","i","t","h"," ","s","e","l","e","c","t","a","b","l","e"," ","t","e","x","t",")",".">>

\* selected.map(...).join("\n\n---\n\n").slice(0, maxInputChars)
combinedText(selected, docs) ==
  slice0(join([i \in 1..Len(selected) |->
                 <<"D","o","c","u","m","e","n","t",":"," ">> \o docs[selected[i]].name \o <<"\n">> \o docs[selected[i]].text],
              <<"\n","\n","-","-","-","\n","\n">>),
         maxInputChars)

\* Sends the notice in place of the text whenever documents are attached.
runOptionBAnalysisTextFree(a, combined) ==
  LET entered(cleanedText, hasText, hasDocs) ==
        IF ~env.apiKey \/ (~hasText /\ ~hasDocs)
        THEN Respond(a, analyzeErrorResponse(IF ~env.apiKey THEN ErrNoKey ELSE ErrTooLittle))
        ELSE [a EXCEPT !.pc = "call1",
                       !.prompt = [transcriptText |-> IF hasText /\ ~hasDocs THEN cleanedText
                                                      ELSE NoTextNotice,
                                   lowSignal |-> ~hasText \/ Len(cleanedText) < lowSignalLength,
                                   hasAttachedDocs |-> hasDocs,
                                   strict |-> FALSE]]
      cleaned(cleanedText) ==
        entered(cleanedText, Len(cleanedText) >= minTextLength, Len(a.parts) > 0)
  IN cleaned(trim(combined))

\* The entry of runOptionBAnalysis: an error thrown, or the prompt is built and
\* the model is about to be called.
runOptionBAnalysis(a, combined) ==
  LET entered(cleanedText, hasText, hasDocs) ==
        IF ~env.apiKey \/ (~hasText /\ ~hasDocs)
        THEN Respond(a, analyzeErrorResponse(IF ~env.apiKey THEN ErrNoKey ELSE ErrTooLittle))
        ELSE [a EXCEPT !.pc = "call1",
                       !.prompt = [transcriptText |-> IF hasText THEN cleanedText ELSE NoTextNotice,
                                   lowSignal |-> ~hasText \/ Len(cleanedText) < lowSignalLength,
                                   hasAttachedDocs |-> hasDocs,
                                   strict |-> FALSE]]
      cleaned(cleanedText) ==
        entered(cleanedText, Len(cleanedText) >= minTextLength, Len(a.parts) > 0)
  IN cleaned(trim(combined))

\* Sends the combined text whatever the signal, and never answers 400.
ProceedAlwaysCombined(a, docs) == runOptionBAnalysis(a, combinedText(a.selected, docs))

\* Answers 400 whenever the signal is low, parts or no parts.
ProceedRejectsWeak(a, docs) ==
  IF a.signal < minAnalysisSignal
  THEN Respond(a, [status |-> 400, error |-> InsufficientMessage,
                   details |-> insufficientDetails(a.selected, docs)])
  ELSE runOptionBAnalysis(a, combinedText(a.selected, docs))

\* Lines 114-133 of the handler: the request ends with 400, or runOptionBAnalysis
\* is entered with the text the signal selects.
Proceed(a, docs) ==
  IF a.signal < minAnalysisSignal /\ Len(a.parts) = 0
  THEN Respond(a, [status |-> 400, error |-> InsufficientMessage,
                   details |-> insufficientDetails(a.selected, docs)])
  ELSE runOptionBAnalysis(a, IF a.signal < minAnalysisSignal THEN a.extractedOnly
                             ELSE combinedText(a.selected, docs))

\* selectedDocs.filter(isPdfDoc).slice(0, maxMultimodalDocs), as ids
pdfDocsOf(selected, docs) ==
  LET capped(pdfs) == SubSeq(pdfs, 1, Min(maxMultimodalDocs, Len(pdfs)))
  IN capped(SelectSeq(selected, LAMBDA id : isPdfDoc(docs[id])))

\* Calls buildDocumentParts whatever the signal.
GateAlwaysBuild(a, docs) ==
  LET built(b, pdfDocs) ==
        IF pdfDocs # <<>>
        THEN [b EXCEPT !.pc = "build", !.built = TRUE, !.pdfDocs = pdfDocs, !.j = 1]
        ELSE Proceed([b EXCEPT !.built = TRUE], docs)
      measured(extractedOnly) ==
        built([a EXCEPT !.extractedOnly = extractedOnly, !.signal = getSignalLength(extractedOnly)],
              pdfDocsOf(a.selected, docs))
  IN measured(join([i \in 1..Len(a.selected) |-> docs[a.selected[i]].text], <<"\n","\n">>))

\* Lines 110-112: the signal of the selected documents' text decides whether
\* buildDocumentParts is called; its loop starts when there are PDFs to attach.
Gate(a, docs) ==
  LET gated(b, pdfDocs) ==
        IF b.signal < minAnalysisSignal /\ pdfDocs # <<>>
        THEN [b EXCEPT !.pc = "build", !.built = TRUE, !.pdfDocs = pdfDocs, !.j = 1]
        ELSE Proceed([b EXCEPT !.built = (b.signal < minAnalysisSignal)], docs)
      measured(extractedOnly) ==
        gated([a EXCEPT !.extractedOnly = extractedOnly, !.signal = getSignalLength(extractedOnly)],
              pdfDocsOf(a.selected, docs))
  IN measured(join([i \in 1..Len(a.selected) |-> docs[a.selected[i]].text], <<"\n","\n">>))

\* The request arrives: its documentIds are checked and resolved; with OCR
\* recovery enabled the loop over the weak PDFs starts.
AnalyzeBegin ==
  /\ an.pc = "idle"
  /\ Len(analysisRuns) < MaxRuns
  /\ \E body \in AnalyzeRequests(Len(documents)) :
       \E selected \in {SelectSeq(body.documentIds, LAMBDA id : id \in 1..Len(documents))} :
         \E weak \in {SelectSeq(selected, LAMBDA id : isWeakPdfDoc(documents[id]))} :
           an' = IF ~body.isArray \/ Len(body.documentIds) = 0
                 THEN Respond(AnIdle, [status |-> 400,
                                       error |-> <<"d","o","c","u","m","e","n","t","I","d","s"," ","m","u","s","t"," ","b","e"," ","a"," ","n","o","n","-","e","m","p","t","y"," ","a","r","r","a","y">>])
                 ELSE IF Len(selected) = 0
                 THEN Respond(AnIdle, [status |-> 404, error |-> <<"N","o"," ","m","a","t","c","h","i","n","g"," ","d","o","c","u","m","e","n","t","s"," ","f","o","u","n","d">>])
                 ELSE IF env.enableOcrRecoveryOnAnalyze /\ Len(weak) > 0
                 THEN [AnIdle EXCEPT !.pc = "recover", !.selected = selected, !.weak = weak, !.j = 1]
                 ELSE Gate([AnIdle EXCEPT !.selected = selected], documents)
  /\ UNCHANGED <<env, documents, cloud, analysisRuns, now, up, got, fn>>

ErrDownload == <<"F","a","i","l","e","d"," ","t","o"," ","d","o","w","n","l","o","a","d"," ","f","i","l","e","."," ","H","T","T","P"," ","4","0","4">>

\* Lets the error of one document end the request.
failedDocumentAborts(a, id) == Respond(a, analyzeErrorResponse(ErrDownload))

\* The catch blocks of the two loops (lines 226-228 and 267-269): the error of
\* one document is logged with console.warn and the loop goes on.
failedDocument(a, id) == [a EXCEPT !.warned = Append(@, id)]

\* One pass of recoverWeakPdfDocuments' loop; after the last, lines 110-133. A
\* request that has its response was ended by an error that left the loop.
RecoverDocument ==
  /\ an.pc = "recover"
  /\ \E buf \in BufferResults(documents[an.weak[an.j]]) :
       \E ocrText \in (IF buf.ok /\ Len(buf.buffer) > 0 THEN OcrResults(buf.buffer) ELSE {<<>>}) :
         \E docs \in {[documents EXCEPT ![an.weak[an.j]] = recovered(@, buf, ocrText)]},
            a \in {IF buf.ok THEN an ELSE failedDocument(an, an.weak[an.j])} :
           /\ documents' = docs
           /\ an' = IF a.pc = "idle" THEN a
                    ELSE IF a.j = Len(a.weak) THEN Gate(a, docs) ELSE [a EXCEPT !.j = @ + 1]
  /\ UNCHANGED <<env, cloud, analysisRuns, now, up, got, fn>>

\* One pass of buildDocumentParts' loop; after the last, lines 114-133.
BuildPart ==
  /\ an.pc = "build"
  /\ \E buf \in BufferResults(documents[an.pdfDocs[an.j]]) :
       \E a \in {IF buf.ok
                 THEN [an EXCEPT !.parts = @ \o partsFor(documents[an.pdfDocs[an.j]], buf)]
                 ELSE failedDocument(an, an.pdfDocs[an.j])} :
         an' = IF a.pc = "idle" THEN a
               ELSE IF a.j = Len(a.pdfDocs) THEN Proceed(a, documents) ELSE [a EXCEPT !.j = @ + 1]
  /\ UNCHANGED <<env, documents, cloud, analysisRuns, now, up, got, fn>>

\* generateStructuredJson: what one call of the model gives, parsed.
structuredJson(out) ==
  IF out.throws THEN Threw("Error", out.message) ELSE parseJsonSafely(out.raw)

\* Stores every run under the same runId.
SucceedSameRunId(a, result) ==
  /\ analysisRuns' =
       <<[runId |-> 1, createdAt |-> now, documentIds |-> a.selected,
          documentNames |-> [i \in 1..Len(a.selected) |-> documents[a.selected[i]].name],
          result |-> result]>>
  /\ now' = now + 1
  /\ an' = Respond(a, [status |-> 200, runId |-> 1, result |-> result,
                       documents |-> [i \in 1..Len(a.selected) |->
                                        maskDocument(documents[a.selected[i]])]])

\* Lines 135-146: the run is stored and returned.
Succeed(a, result) ==
  /\ analysisRuns' =
       Append(analysisRuns,
              [runId |-> Len(analysisRuns) + 1, createdAt |-> now, documentIds |-> a.selected,
               documentNames |-> [i \in 1..Len(a.selected) |-> documents[a.selected[i]].name],
               result |-> result])
  /\ now' = now + 1
  /\ an' = Respond(a, [status |-> 200, runId |-> Len(analysisRuns) + 1, result |-> result,
                       documents |-> [i \in 1..Len(a.selected) |->
                                        maskDocument(documents[a.selected[i]])]])

\* Lines 147-157: nothing is stored and the error is translated.
Fail(a, message) ==
  /\ an' = Respond(a, analyzeErrorResponse(message))
  /\ UNCHANGED <<analysisRuns, now>>

\* Asks again whatever the flag and the first result.
retryWantedAlways(result) == TRUE

\* Line 187: whether runOptionBAnalysis calls the model a second time.
retryWanted(result) == env.retryUnderfilled /\ isLikelyUnderfilled(result)

\* One call of generateContent, as the client library sees it.
Call(a, out) == [prompt |-> a.prompt, parts |-> a.parts, out |-> out]

\* The first call of the model: its normalized answer is the result, unless the
\* second call is wanted.
ModelCall ==
  /\ an.pc = "call1"
  /\ \E out \in ModelOutcomes :
       \E parsed \in {structuredJson(out)}, a \in {[an EXCEPT !.calls = Append(@, Call(an, out))]} :
         IF ~parsed.ok THEN Fail(a, parsed.message)
         ELSE \E result \in {normalizeResult(parsed.val)} :
                IF retryWanted(result)
                THEN /\ an' = [a EXCEPT !.pc = "call2", !.result = result, !.prompt.strict = TRUE]
                     /\ UNCHANGED <<analysisRuns, now>>
                ELSE Succeed([a EXCEPT !.result = result], result)
  /\ UNCHANGED <<env, documents, cloud, up, got, fn>>

\* The second call, with the stricter prompt: its result is returned as it is.
ModelRetry ==
  /\ an.pc = "call2"
  /\ \E out \in ModelOutcomes :
       \E parsed \in {structuredJson(out)}, a \in {[an EXCEPT !.calls = Append(@, Call(an, out))]} :
         IF ~parsed.ok THEN Fail(a, parsed.message)
         ELSE Succeed(a, normalizeResult(parsed.val))
  /\ UNCHANGED <<env, documents, cloud, up, got, fn>>

(***************************************************************************)
(* GET /api/documents and GET /api/result/:runId                           *)
(***************************************************************************)

\* The masked view of every stored document is returned; nothing is written.
GetDocuments ==
  /\ got' = [status |-> 200,
             documents |-> [i \in 1..Len(documents) |-> maskDocument(documents[i])]]
  /\ UNCHANGED <<env, documents, cloud, analysisRuns, now, up, an, fn>>

\* The run of that id is returned, or 404; nothing is written.
GetResult ==
  /\ \E runId \in 1..(Len(analysisRuns) + 1) :
       got' = IF runId \in 1..Len(analysisRuns)
              THEN [status |-> 200, run |-> analysisRuns[runId]]
              ELSE [status |-> 404, error |-> <<"R","u","n"," ","n","o","t"," ","f","o","u","n","d">>]
  /\ UNCHANGED <<env, documents, cloud, analysisRuns, now, up, an, fn>>

(***************************************************************************)
(* The pure functions applied to enumerated inputs                         *)
(***************************************************************************)

NoFn == [op |-> "none"]

\* Error messages: a part that may carry the quota signature, then a part that
\* may carry a retry hint. n is the number the hint states, up its ceiling.
SignatureParts ==
  { [text |-> <<"S","e","r","v","i","c","e"," ","u","n","a","v","a","i","l","a","b","l","e"," ","(","5","0","3",")","."," ">>, signature |-> FALSE],
    [text |-> <<"q","u","o","t","a"," ","w","a","s"," ","e","x","c","e","e","d","e","d",";"," ","r","a","t","e","-","l","i","m","i","t"," ">>, signature |-> FALSE],
    [text |-> <<"[","4","2","9"," ","T","o","o"," ","M","a","n","y","]"," ">>, signature |-> TRUE],
    [text |-> <<"Q","u","o","t","a"," ","E","x","c","e","e","d","e","d"," ","f","o","r"," ","m","e","t","r","i","c","."," ">>, signature |-> TRUE],
    [text |-> <<"H","T","T","P",":"," ","T","O","O"," ","M","A","N","Y"," ","R","E","Q","U","E","S","T","S","."," ">>, signature |-> TRUE],
    [text |-> <<"R","a","t","e"," ","L","i","m","i","t"," ","r","e","a","c","h","e","d","."," ">>, signature |-> TRUE] }

HintNumbers ==
  { [int |-> <<"0">>, frac |-> <<>>, up |-> 0],
    [int |-> <<"0">>, frac |-> <<"0","0">>, up |-> 0],
    [int |-> <<"0">>, frac |-> <<"2","5">>, up |-> 1],
    [int |-> <<"7">>, frac |-> <<>>, up |-> 7],
    [int |-> <<"5","0">>, frac |-> <<"4","1","7","9","6","8","0","3","8">>, up |-> 51],
    [int |-> <<"5","0">>, frac |-> <<"0">>, up |-> 50],
    [int |-> <<"1","2","0">>, frac |-> <<"0","5">>, up |-> 121] }

decimalText(n) == IF n.frac = <<>> THEN n.int ELSE n.int \o <<".">> \o n.frac

HintParts ==
  { [text |-> <<"T","r","y"," ","a","g","a","i","n"," ","l","a","t","e","r",".">>, kind |-> "none", up |-> 0],
    [text |-> <<"P","l","e","a","s","e"," ","r","e","t","r","y"," ","i","n"," ","5"," ","s","e","c","o","n","d","s",".">>, kind |-> "none", up |-> 0],
    [text |-> <<"r","e","t","r","y","D","e","l","a","y",":"," ","5","s">>, kind |-> "none", up |-> 0] }
  \cup { [text |-> <<"P","l","e","a","s","e"," ","r","e","t","r","y"," ","i","n"," ">> \o decimalText(n) \o <<"s",".">>, kind |-> "in", up |-> n.up] :
           n \in HintNumbers }
  \cup { [text |-> <<"R","E","T","R","Y"," ","I","N","\n"," ">> \o decimalText(n) \o <<"S">>, kind |-> "in", up |-> n.up] :
           n \in HintNumbers }
  \cup { [text |-> <<"{","\"","r","e","t","r","y","D","e","l","a","y","\"",":","\"">> \o n.int \o <<"s","\"","}">>, kind |-> "delay",
          up |-> DecimalValue(n.int)] : n \in {m \in HintNumbers : m.frac = <<>>} }
  \cup { [text |-> <<"{","\\","\"","r","e","t","r","y","d","e","l","a","y","\\","\"",":","\\","\"">> \o n.int \o <<"s","\\","\"","}">>, kind |-> "delay",
          up |-> DecimalValue(n.int)] : n \in {m \in HintNumbers : m.frac = <<>>} }
  \cup { [text |-> <<"\"","r","e","t","r","y","D","e","l","a","y","\"",":","\"","9","s","\""," ","r","e","t","r","y"," ","i","n"," ">> \o decimalText(n) \o <<"s">>, kind |-> "in",
          up |-> n.up] : n \in HintNumbers }

QuotaInputs ==
  { [op |-> "quota", done |-> FALSE, signature |-> s.signature, kind |-> h.kind, up |-> h.up,
     message |-> s.text \o h.text, out |-> NoResponse] :
      s \in SignatureParts, h \in HintParts }

\* Raw model answers: what may precede the JSON, the JSON or what stands for it,
\* what may follow it.
RawPrefixes == { <<>>, <<"`'","`'","`'","j","s","o","n","\n">>, <<"`'","`'","`'","\n">>, <<"`'","`'","`'","J","S","O","N"," "," ">>, <<"H","e","r","e"," ","y","o","u"," ","g","o",":"," ">>, <<"\n"," ","{"," ">> }

RawBodies ==
  { <<"{","\"","t","o","n","e","\"",":","\"","n","e","u","t","r","a","l","\"","}">>, <<"{"," ","\"","a","\""," ",":"," ","[","1",","," ","{","\"","b","\"",":"," ","n","u","l","l","}","]",","," ","\"","c","\"",":"," ","\"","x","\""," ","}">>, <<"[","1",",","2","]">>, <<"\"","t","e","x","t","\"">>, <<"4","2">>,
    <<"{","o","o","p","s","}">>, <<"{","\"","a","\"",":","}">>, <<"{","\"","a","\"",":","1","}"," ","a","n","d"," ","{">>, <<"n","o","t"," ","j","s","o","n"," ","a","t"," ","a","l","l">>, <<"}","{">>, <<"{">>, <<>> }

RawSuffixes == { <<>>, <<"\n","`'","`'","`'">>, <<" ","t","h","a","n","k","s">>, <<"`'","`'","`'">>, <<" ","}"," ">> }

ParseInputs ==
  { [op |-> "parse", done |-> FALSE, raw |-> p \o b \o s, out |-> Returned(Undefined)] :
      p \in RawPrefixes, b \in RawBodies, s \in RawSuffixes }

\* The longest evidence_quotes array among the normalizer's inputs.
MaxEvLen == 10

ObjOf(key, v) == JObj(key :> v)

\* Values for a field that expects one of an enumerated set of strings.
EnumValues ==
  { Undefined, JNull, JNum(1), JBool(TRUE), JArr(<<JStr(<<"n","e","u","t","r","a","l">>)>>), JObj(<<>>),
    JStr(<<"o","p","t","i","m","i","s","t","i","c">>), JStr(<<"c","a","u","t","i","o","u","s">>), JStr(<<"d","e","f","e","n","s","i","v","e">>), JStr(<<"n","e","u","t","r","a","l">>),
    JStr(<<"p","e","s","s","i","m","i","s","t","i","c">>), JStr(<<"h","i","g","h">>), JStr(<<"m","e","d","i","u","m">>), JStr(<<"l","o","w">>),
    JStr(<<"O","p","t","i","m","i","s","t","i","c">>), JStr(<<" ","h","i","g","h">>), JStr(<<>>), JStr(<<"b","u","l","l","i","s","h">>) }

\* Values for a nullable narrative string.
NarrativeValues ==
  { Undefined, JNull, JNum(0), JArr(<<>>), JStr(<<>>), JStr(<<" "," ","\n">>), JStr(<<"n","u","l","l">>),
    JStr(<<" ","N","U","L","L"," ">>), JStr(<<"N","o","t"," ","M","e","n","t","i","o","n","e","d">>), JStr(<<" ","n","o","t"," ","m","e","n","t","i","o","n","e","d","\n">>), JStr(<<"n","u","l","l","a","b","l","e">>),
    JStr(<<" "," ","C","a","p","e","x"," ","f","l","a","t"," ","[","c","i","t","e",":"," ","3","]"," ">>), JStr(<<"1","5","0","-","2","0","0"," ","b","p","s">>) }

\* Values for a list of strings: wrong types, blank entries, more than the cap.
ListValues ==
  { Undefined, JNull, JStr(<<"a",","," ","b">>), JObj(<<>>), JArr(<<>>),
    JArr(<<JStr(<<" ">>), JNull, JNum(3)>>),
    JArr(<<JStr(<<" ","V","o","l","u","m","e"," ","u","p"," ","5","%"," ">>), JStr(<<>>), JArr(<<>>), JStr(<<"R","u","r","a","l"," ","r","e","c","o","v","e","r","y">>)>>) }
  \cup { JArr([i \in 1..n |-> JStr(<<"i","t","e","m"," ">> \o Rep("i", i))]) : n \in {5, 6, 7, 10, 12, 13} }

\* Entries of evidence_quotes: i tells the entries of one array apart.
goodEvidence(i) ==
  JObj((K_quote :> JStr(<<" "," ","Q","u","o","t","e"," ","n","o","."," ">> \o Rep("x", i) \o <<"\n">>)) @@ (K_section :> JStr(<<" ","Q","&","A"," ">>)))

bareEvidence(i) == ObjOf(K_quote, JStr(<<"M","a","r","g","i","n"," ","g","u","i","d","e"," ">> \o Rep("y", i)))

\* The quote is ten characters once trimmed.
shortEvidence(i) ==
  JObj((K_quote :> JStr(<<" "," ","0","1","2","3","4","5","6","7","8","9"," "," "," ">>)) @@ (K_section :> JStr(<<"G","u","i","d","a","n","c","e">>)))

wrongEvidence(i) ==
  IF i % 3 = 0 THEN JStr(<<"A"," ","q","u","o","t","e"," ","g","i","v","e","n"," ","a","s"," ","a"," ","s","t","r","i","n","g">>)
  ELSE IF i % 3 = 1 THEN JObj((K_quote :> JNum(123456789)) @@ (K_section :> JStr(<<"n">>)))
  ELSE JNull

EvidencePatterns == {"good", "bare", "short", "wrong", "alternate", "lateGood", "mixed"}

evidenceArray(pattern, n) ==
  JArr([i \in 1..n |->
          CASE pattern = "good" -> goodEvidence(i)
            [] pattern = "bare" -> bareEvidence(i)
            [] pattern = "short" -> shortEvidence(i)
            [] pattern = "wrong" -> wrongEvidence(i)
            [] pattern = "alternate" -> IF i % 2 = 1 THEN shortEvidence(i) ELSE goodEvidence(i)
            [] pattern = "lateGood" -> IF i <= 2 THEN wrongEvidence(i) ELSE bareEvidence(i)
            [] OTHER -> IF i % 3 = 0 THEN wrongEvidence(i + 1) ELSE goodEvidence(i)])

EvidenceValues ==
  { Undefined, JNull, JStr(<<"N","o"," ","d","i","r","e","c","t"," ","q","u","o","t","e"," ","e","x","t","r","a","c","t","e","d">>), JObj(<<>>) }
  \cup { evidenceArray(p, n) : p \in EvidencePatterns, n \in 0..MaxEvLen }

NormalizeValues ==
  { JNull, Undefined, JObj(<<>>), JArr(<<>>), JArr(<<ObjOf(K_tone, JStr(<<"c","a","u","t","i","o","u","s">>))>>),
    JStr(<<"o","p","t","i","m","i","s","t","i","c">>), JNum(7), JBool(FALSE) }
  \cup { JObj((K_tone :> t) @@ (K_confidence :> c)) : t \in EnumValues, c \in EnumValues }
  \cup { JObj((K_tone_summary :> s) @@ (K_capacity_utilization_trends :> JStr(<<" ","n","u","l","l"," ">>))
              @@ (K_forward_guidance :> ObjOf(K_revenue, s))) : s \in NarrativeValues }
  \cup { ObjOf(K_forward_guidance, g) : g \in NarrativeValues }
  \cup { JObj((K_forward_guidance :> JObj((K_margin :> s) @@ (K_capex :> t) @@ (K_tax_rate :> JNum(25))))
              @@ (K_key_concerns :> JArr(<<s, t>>))) :
           s \in NarrativeValues, t \in {JNull, JStr(<<"n","o","t"," ","m","e","n","t","i","o","n","e","d">>), JStr(<<" ","2","b","n"," ">>)} }
  \cup { JObj((K_key_positives :> l) @@ (K_missing_sections :> l)) : l \in ListValues }
  \cup { JObj((K_key_concerns :> l) @@ (K_growth_initiatives :> JArr(<<JStr(<<" ","4","7","0","0","B","C"," ">>)>>))
              @@ (K_tone :> JStr(<<"d","e","f","e","n","s","i","v","e">>))) : l \in ListValues }
  \cup { ObjOf(K_evidence_quotes, e) : e \in EvidenceValues }

NormalizeInputs ==
  { [op |-> "normalize", done |-> FALSE, again |-> FALSE, input |-> v,
     out |-> Undefined, out2 |-> Undefined] : v \in NormalizeValues }

\* parseGeminiQuotaError and the catch block applied to an error's message.
ApplyQuota ==
  /\ fn.op = "quota" /\ ~fn.done
  /\ fn' = [fn EXCEPT !.done = TRUE, !.out = analyzeErrorResponse(fn.message)]
  /\ UNCHANGED serverVars

\* parseJsonSafely applied to a raw answer.
ApplyParse ==
  /\ fn.op = "parse" /\ ~fn.done
  /\ fn' = [fn EXCEPT !.done = TRUE, !.out = parseJsonSafely(fn.raw)]
  /\ UNCHANGED serverVars

\* normalizeResult applied to a decoded value.
ApplyNormalize ==
  /\ fn.op = "normalize" /\ ~fn.done
  /\ fn' = [fn EXCEPT !.done = TRUE, !.out = normalizeResult(fn.input)]
  /\ UNCHANGED serverVars

\* normalizeResult applied to its own result.
ApplyNormalizeAgain ==
  /\ fn.op = "normalize" /\ fn.done /\ ~fn.again
  /\ fn' = [fn EXCEPT !.again = TRUE, !.out2 = normalizeResult(fn.out)]
  /\ UNCHANGED serverVars

(***************************************************************************)
(* extractTextFromPdfBufferWithGemini and withTimeout, step by step        *)
(***************************************************************************)

\* The bytes OCR is asked to read.
OcrBuffers == {<<>>} \cup {f.buffer : f \in {pdfStrong, pdfHalfA, pdfHalfB, pdfScan, pdfBig}}

\* How model.generateContent settles: with a response whose text() gives a text
\* (the empty one too) or throws, or with an error.
OcrAnswers ==
  { [kind |-> "text", text |-> t] : t \in OcrTexts \cup {<<"Q","1"," ","c","a","l","l">>, <<>>} }
  \cup { [kind |-> "blocked", text |-> <<>>], [kind |-> "error", text |-> <<>>] }

OcrPending == [state |-> "pending"]

OcrInputs ==
  { [op |-> "ocr", pc |-> "start", buffer |-> b, call |-> [state |-> "none"],
     timer |-> "none", outer |-> "none", out |-> Returned(Undefined)] : b \in OcrBuffers }

\* Lines 80-84 for a call that settled in time: the text of the response or "",
\* and "" from the catch block when text() throws or the call failed.
ocrOutcome(answer) == Returned(IF answer.kind = "text" THEN answer.text ELSE <<>>)

\* Lets a later settlement replace the outcome of an earlier one.
settleAlways(f, how, outcome) ==
  [f EXCEPT !.outer = how, !.out = outcome, !.pc = "returned"]

\* resolve and reject of withTimeout's promise (lines 94-102): the first of them
\* settles it, and the function awaiting it returns; any later one does nothing.
settle(f, how, outcome) ==
  IF f.outer # "pending" THEN f
  ELSE [f EXCEPT !.outer = how, !.out = outcome, !.pc = "returned"]

\* Lines 45-53 and 93-94: "" without key or bytes; else the call is made and
\* the timer is set.
OcrBegin ==
  /\ fn.op = "ocr" /\ fn.pc = "start"
  /\ fn' = IF ~env.apiKey \/ Len(fn.buffer) = 0
           THEN [fn EXCEPT !.pc = "returned", !.out = Returned(<<>>)]
           ELSE [fn EXCEPT !.pc = "waiting", !.call = OcrPending, !.timer = "armed",
                           !.outer = "pending"]
  /\ UNCHANGED serverVars

\* Lines 95-103: the call settles, the timer is cleared if it has not fired,
\* and the promise is resolved or rejected.
OcrModelSettles ==
  /\ fn.op = "ocr" /\ fn.call = OcrPending
  /\ \E answer \in OcrAnswers :
       fn' = settle([fn EXCEPT !.call = [state |-> "settled", answer |-> answer],
                               !.timer = IF @ = "armed" THEN "cleared" ELSE @],
                    IF answer.kind = "error" THEN "rejected" ELSE "resolved",
                    ocrOutcome(answer))
  /\ UNCHANGED serverVars

\* Line 94: the timer fires and rejects the promise; lines 81-84 return "".
OcrTimerFires ==
  /\ fn.op = "ocr" /\ fn.timer = "armed"
  /\ fn' = settle([fn EXCEPT !.timer = "fired"], "rejected", Returned(<<>>))
  /\ UNCHANGED serverVars

(***************************************************************************)
(* Specifications                                                          *)
(***************************************************************************)

InitServer ==
  /\ documents = <<>>
  /\ cloud = <<>>
  /\ analysisRuns = <<>>
  /\ now = 0
  /\ up = UpIdle(NoResponse)
  /\ an = AnIdle
  /\ got = NoResponse

Init == env \in Environments /\ InitServer /\ fn = NoFn

Next ==
  \/ UploadBegin
  \/ UploadFile
  \/ AnalyzeBegin
  \/ RecoverDocument
  \/ BuildPart
  \/ ModelCall
  \/ ModelRetry
  \/ GetResult

\* The server, its writing routes and the retrieval of runs: requests in any order, one upload and one analysis at a time.
Spec == Init /\ [][Next]_vars

\* The flags of a default deployment with its API key set.
DefaultEnv ==
  [apiKey |-> TRUE, enableOcrRecoveryOnAnalyze |-> FALSE, enableOcrOnUpload |-> FALSE,
   retryUnderfilled |-> FALSE, maxMultimodalDocs |-> 1]

InitFn == env = DefaultEnv /\ InitServer /\ fn \in QuotaInputs \cup ParseInputs \cup NormalizeInputs

NextFn == ApplyQuota \/ ApplyParse \/ ApplyNormalize \/ ApplyNormalizeAgain

\* The pure functions, each applied to one of its inputs.
SpecFn == InitFn /\ [][NextFn]_vars

InitOcr == env \in Environments /\ InitServer /\ fn \in OcrInputs

NextOcr == OcrBegin \/ OcrModelSettles \/ OcrTimerFires

\* One call of extractTextFromPdfBufferWithGemini. The function runs once it is
\* called and a timer that is set and not cleared fires; the model need not answer.
SpecOcr == InitOcr /\ [][NextOcr]_vars /\ WF_vars(OcrBegin) /\ WF_vars(OcrTimerFires)

InitUpload == env = DefaultEnv /\ InitServer /\ fn = NoFn

\* With the flags of DefaultEnv there is no OCR recovery and no second call.
NextUpload ==
  \/ UploadBegin
  \/ UploadFile
  \/ GetDocuments
  \/ AnalyzeBegin
  \/ BuildPart
  \/ ModelCall

\* The server of a default deployment, with the listing of the documents.
SpecUpload == InitUpload /\ [][NextUpload]_vars

(***************************************************************************)
(* Properties of POST /api/analyze                                         *)
(***************************************************************************)

\* The non-white-space characters of the selected documents' text, counted on
\* the Document Store as it is.
SelectedSignal ==
  Cardinality({p \in UNION {{<<i, k>> : k \in 1..Len(documents[an.selected[i]].text)} :
                              i \in 1..Len(an.selected)} :
                 documents[an.selected[p[1]]].text[p[2]] \notin WS})

\* The analyze request has resolved its documents and is past OCR recovery.
Measured == an.selected # <<>> /\ an.pc # "recover"

\* C1: when the selected documents' text, measured after any OCR recovery, has
\* at least minAnalysisSignal non-white-space characters, buildDocumentParts is
\* not invoked, no part is held, and every call of the model carries no parts.
C1_TextModeAttachesNothing ==
  (Measured /\ SelectedSignal >= minAnalysisSignal) =>
    /\ ~an.built
    /\ an.pc # "build"
    /\ an.parts = <<>>
    /\ \A c \in 1..Len(an.calls) : an.calls[c].parts = <<>>

\* The model was called for two PDFs, each below the threshold on its own (so
\* each keeps its bytes for attachment), whose text together reaches it.
C1_Witness ==
  /\ Measured
  /\ Len(an.selected) = 2
  /\ \A i \in 1..2 :
       /\ getSignalLength(documents[an.selected[i]].text) < minAnalysisSignal
       /\ documents[an.selected[i]].sourceForAnalysis # JNull
  /\ SelectedSignal >= minAnalysisSignal
  /\ Len(an.calls) >= 1

\* C2: when the selected documents' signal is below minAnalysisSignal and the
\* attempt to build parts is over with none built, the request has ended with
\* 400 and the insufficient-content message, its details hold one entry (id,
\* name, character count, first 120 characters) per selected document in the
\* order selected, and the model was not called.
C2_InsufficientContent ==
  (Measured /\ an.pc # "build" /\ SelectedSignal < minAnalysisSignal /\ an.parts = <<>>) =>
    /\ an.pc = "idle"
    /\ an.response.status = 400
    /\ an.response.error = InsufficientMessage
    /\ an.calls = <<>>
    /\ Len(an.response.details) = Len(an.selected)
    /\ \A i \in 1..Len(an.selected) :
         an.response.details[i] =
           [id |-> an.selected[i],
            name |-> documents[an.selected[i]].name,
            textChars |-> Len(documents[an.selected[i]].text),
            textPreview |-> [k \in 1..(IF Len(documents[an.selected[i]].text) < 120
                                       THEN Len(documents[an.selected[i]].text) ELSE 120) |->
                               documents[an.selected[i]].text[k]]]

\* Two documents were selected, a PDF among them was tried for attachment and
\* gave no part, and the request ended with 400.
C2_Witness ==
  /\ Measured
  /\ an.pc = "idle"
  /\ an.response.status = 400
  /\ Len(an.selected) = 2
  /\ an.pdfDocs # <<>>
  /\ an.parts = <<>>

\* At least two of the three lists are empty and the four guidance fields are null.
Underfilled(result) ==
  /\ \E S \in SUBSET {K_key_positives, K_key_concerns, K_growth_initiatives} :
       Cardinality(S) = 2 /\ \A k \in S : result.o[k].a = <<>>
  /\ \A k \in {K_revenue, K_margin, K_capex, K_tax_rate} :
       result.o[K_forward_guidance].o[k].t = "null"

\* C3: one analysis calls the model at most twice; there is a second call only
\* if ANALYZER_RETRY_ON_UNDERFILLED is set and the first answer, normalized, is
\* underfilled; the second call differs from the first by the stricter prompt
\* only, and when it parses its normalized answer is the result returned.
C3_AtMostOneRetry ==
  /\ Len(an.calls) <= 2
  /\ Len(an.calls) = 2 =>
       /\ env.retryUnderfilled
       /\ ~an.calls[1].out.throws
       /\ an.result = normalizeResult(parseJsonSafely(an.calls[1].out.raw).val)
       /\ Underfilled(an.result)
       /\ an.calls[2].parts = an.calls[1].parts
       /\ an.calls[2].prompt = [an.calls[1].prompt EXCEPT !.strict = TRUE]
       /\ ~an.calls[1].prompt.strict
       /\ an.pc = "idle"
       /\ IF ~an.calls[2].out.throws /\ parseJsonSafely(an.calls[2].out.raw).ok
          THEN /\ an.response.status = 200
               /\ an.response.result =
                    normalizeResult(parseJsonSafely(an.calls[2].out.raw).val)
          ELSE an.response.status \in {429, 500}

\* The model was called twice and the second answer, itself underfilled, was returned.
C3_Witness ==
  /\ Len(an.calls) = 2
  /\ an.pc = "idle"
  /\ an.response.status = 200
  /\ Underfilled(an.response.result)

(***************************************************************************)
(* Properties of the stores                                                *)
(***************************************************************************)

\* C9: every stored document has textChars equal to the length of its text,
\* and textWords equal to 0 exactly when its text is empty.
C9_DocumentCounts ==
  \A i \in 1..Len(documents) :
    /\ documents[i].textChars = Len(documents[i].text)
    /\ (documents[i].textWords = 0) <=> (documents[i].text = <<>>)

\* The store holds a document without text and one whose text OCR recovery
\* replaced at analyze time (it kept its bytes at upload, and is strong now).
C9_Witness ==
  /\ \E i \in 1..Len(documents) : documents[i].text = <<>>
  /\ \E i \in 1..Len(documents) :
       /\ documents[i].sourceForAnalysis # JNull
       /\ getSignalLength(documents[i].text) >= minAnalysisSignal

\* An analyze request ends in this step, with this status.
AnalyzeEnds(status) == an' # an /\ an'.pc = "idle" /\ an'.response.status = status

\* C10: in every step the runs stored stay as they are, in place; one run is
\* added, under a new runId and holding the result returned, by the step that
\* ends an analyze request with 200, and none by any other step.
C10_RunStoreAppendOnly ==
  [][/\ Len(analysisRuns') >= Len(analysisRuns)
     /\ SubSeq(analysisRuns', 1, Len(analysisRuns)) = analysisRuns
     /\ IF AnalyzeEnds(200)
        THEN /\ Len(analysisRuns') = Len(analysisRuns) + 1
             /\ analysisRuns'[Len(analysisRuns')].result = an'.response.result
             /\ analysisRuns'[Len(analysisRuns')].runId = an'.response.runId
             /\ analysisRuns'[Len(analysisRuns')].documentIds = an'.selected
             /\ \A r \in 1..Len(analysisRuns) :
                  analysisRuns[r].runId # analysisRuns'[Len(analysisRuns')].runId
        ELSE analysisRuns' = analysisRuns]_vars

\* A second run was stored and returned, and the first run is retrieved as it
\* was stored.
C10_Witness ==
  /\ Len(analysisRuns) = 2
  /\ got.status = 200
  /\ got.run = analysisRuns[1]
  /\ an.pc = "idle"
  /\ an.response.status = 200

(***************************************************************************)
(* Properties of the pure functions                                        *)
(***************************************************************************)

\* What the claim gives for the seconds of a hint: the ceiling of the number of
\* a "retry in" phrase, the number of a retryDelay field, null without either.
ClaimedSeconds(kind, ceiling) == IF kind = "none" THEN JNull ELSE JNum(ceiling)

\* C4 as stated: an error with the quota signature gets 429 with
\* retryAfterSeconds the ceiling of N for "retry in Ns", N for retryDelay "Ns",
\* null otherwise; an error without the signature gets 500.
C4_AsStated ==
  (fn.op = "quota" /\ fn.done) =>
    IF fn.signature
    THEN /\ fn.out.status = 429
         /\ fn.out.retryAfterSeconds = ClaimedSeconds(fn.kind, fn.up)
    ELSE fn.out.status = 500

\* C4, amended: an error with the quota signature gets 429 and the quota
\* message, with retryAfterSeconds the ceiling of N but at least 1 for "retry in
\* Ns" (which wins over a retryDelay field), N for retryDelay "Ns", and null
\* otherwise; an error without the signature gets 500 with its own message.
C4_RateLimited ==
  (fn.op = "quota" /\ fn.done) =>
    IF fn.signature
    THEN /\ fn.out.status = 429
         /\ fn.out.error = QuotaMessage
         /\ fn.out.retryAfterSeconds =
              IF fn.kind = "in" /\ fn.up < 1 THEN JNum(1) ELSE ClaimedSeconds(fn.kind, fn.up)
    ELSE /\ fn.out.status = 500
         /\ fn.out.error = fn.message

\* A quota error said "retry in 0s" and got retryAfterSeconds 1.
C4_Witness ==
  /\ fn.op = "quota" /\ fn.done
  /\ fn.signature /\ fn.kind = "in" /\ fn.up = 0
  /\ fn.out.status = 429
  /\ fn.out.retryAfterSeconds = JNum(1)

\* C5: normalizeResult gives a tone among the five allowed and a confidence
\* among the three allowed: the input's when it is one of them, neutral and low
\* otherwise.
C5_ToneAndConfidence ==
  (fn.op = "normalize" /\ fn.done) =>
    /\ fn.out.o[K_tone] \in {JStr(toneAllowed[k]) : k \in 1..5}
    /\ fn.out.o[K_confidence] \in {JStr(confidenceAllowed[k]) : k \in 1..3}
    /\ fn.out.o[K_tone] =
         IF Get(fn.input, K_tone) \in {JStr(toneAllowed[k]) : k \in 1..5}
         THEN Get(fn.input, K_tone) ELSE JStr(<<"n","e","u","t","r","a","l">>)
    /\ fn.out.o[K_confidence] =
         IF Get(fn.input, K_confidence) \in {JStr(confidenceAllowed[k]) : k \in 1..3}
         THEN Get(fn.input, K_confidence) ELSE JStr(<<"l","o","w">>)

\* The input's tone was a string outside the set and its confidence no string.
C5_Witness ==
  /\ fn.op = "normalize" /\ fn.done
  /\ Get(fn.input, K_tone) = JStr(<<"b","u","l","l","i","s","h">>)
  /\ Get(fn.input, K_confidence).t = "num"
  /\ fn.out.o[K_tone] = JStr(<<"n","e","u","t","r","a","l">>)
  /\ fn.out.o[K_confidence] = JStr(<<"l","o","w">>)

\* The entries of the input's evidence_quotes, none when it is no array.
EvidenceIn == IF Get(fn.input, K_evidence_quotes).t = "arr" THEN Get(fn.input, K_evidence_quotes).a ELSE <<>>

\* The positions of the entries whose quote is a string longer than 10 characters
\* once trimmed.
Qualifying ==
  {i \in 1..Len(EvidenceIn) :
     /\ Get(EvidenceIn[i], K_quote).t = "str"
     /\ Len(trim(Get(EvidenceIn[i], K_quote).s)) > 10}

\* C6: the normalized evidence_quotes has 1 to 8 entries: the first up to 8
\* qualifying entries of the input in their order, each with its quote and
\* section trimmed, or the sentinel alone when no entry qualifies.
C6_EvidenceQuotes ==
  (fn.op = "normalize" /\ fn.done) =>
    /\ Len(fn.out.o[K_evidence_quotes].a) \in 1..8
    /\ IF Qualifying = {}
       THEN fn.out.o[K_evidence_quotes].a =
              <<JObj((K_quote :> JStr(<<"N","o"," ","d","i","r","e","c","t"," ","q","u","o","t","e"," ","e","x","t","r","a","c","t","e","d">>)) @@ (K_section :> JStr(<<"N","/","A">>)))>>
       ELSE /\ Len(fn.out.o[K_evidence_quotes].a) =
                 (IF Cardinality(Qualifying) < 8 THEN Cardinality(Qualifying) ELSE 8)
            /\ \A i \in Qualifying :
                 Cardinality({j \in Qualifying : j <= i}) <= 8 =>
                   fn.out.o[K_evidence_quotes].a[Cardinality({j \in Qualifying : j <= i})] =
                     JObj((K_quote :> JStr(trim(Get(EvidenceIn[i], K_quote).s)))
                          @@ (K_section :>
                                JStr(IF Get(EvidenceIn[i], K_section).t = "str"
                                     THEN trim(Get(EvidenceIn[i], K_section).s) ELSE <<>>)))

\* More than eight entries qualified, entries that do not standing among them.
C6_Witness ==
  /\ fn.op = "normalize" /\ fn.done
  /\ Cardinality(Qualifying) > 8
  /\ Len(fn.out.o[K_evidence_quotes].a) = 8

\* C7: normalizeResult applied to its own result gives that result again.
C7_Idempotent ==
  (fn.op = "normalize" /\ fn.again) => fn.out2 = fn.out

\* A second pass was made over a result whose evidence is the sentinel and
\* whose input was not normalized already.
C7_Witness ==
  /\ fn.op = "normalize" /\ fn.again
  /\ fn.out.o[K_evidence_quotes].a = <<evidenceSentinel>>
  /\ fn.out.o[K_tone_summary] # JNull
  /\ fn.input # fn.out

\* C8: for a raw answer that is not blank, when neither the text without its
\* fences nor its part from the first "{" to the last "}" is JSON,
\* parseJsonSafely throws the error "LLM output was not valid JSON".
C8_InvalidModelOutput ==
  (/\ fn.op = "parse" /\ fn.done
   /\ trim(fn.raw) # <<>>
   /\ ~JSONparse(withoutFences(trim(fn.raw))).ok
   /\ \/ ~braceMatch(withoutFences(trim(fn.raw))).found
      \/ ~JSONparse(braceMatch(withoutFences(trim(fn.raw))).text).ok)
  => fn.out = Threw("Error", ErrInvalidJson)

(***************************************************************************)
(* Properties of POST /api/upload                                          *)
(***************************************************************************)

\* An upload request ends in this step with 500, at one of its files.
UploadEndsFailed == up.pc = "files" /\ up'.pc = "idle" /\ up'.response.status = 500

\* C16: stored documents stay in the store, in place; the step that ends an
\* upload request with 500 at file k leaves the store as it is, with the
\* documents of files 1..k-1 as its last entries, reports no document, and
\* leaves the request with no file to process.
C16_UploadNotAllOrNothing ==
  [][/\ Len(documents') >= Len(documents)
     /\ \A i \in 1..Len(documents) :
          documents'[i].id = documents[i].id /\ documents'[i].name = documents[i].name
     /\ UploadEndsFailed =>
          /\ documents' = documents
          /\ Len(up.uploaded) = up.k - 1
          /\ Len(documents) >= up.k - 1
          /\ \A i \in 1..(up.k - 1) :
               /\ maskDocument(documents[Len(documents) - (up.k - 1) + i]) = up.uploaded[i]
               /\ documents[Len(documents) - (up.k - 1) + i].name = up.files[i].originalname
          /\ DOMAIN up'.response = {"status", "error"}
          /\ up'.files = <<>>]_vars

\* The second file of an upload failed; the document of the first is listed by
\* GET /api/documents and an analysis of it has succeeded.
C16_Witness ==
  /\ up.pc = "idle" /\ up.response.status = 500
  /\ Len(documents) = 1
  /\ documents[1].name = pdfStrong.originalname
  /\ got.status = 200
  /\ DOMAIN got = {"status", "documents"}
  /\ got.documents = <<maskDocument(documents[1])>>
  /\ an.pc = "idle" /\ an.response.status = 200
  /\ an.selected = <<1>>

(***************************************************************************)
(* Properties of the loops over the selected documents                     *)
(***************************************************************************)

\* The documents the loop in progress goes over: the weak PDFs of OCR recovery,
\* the PDFs of the part building.
LoopDocs == IF an.pc = "recover" THEN an.weak ELSE an.pdfDocs

\* C11: a pass of either loop, whatever happened to its document, goes on to
\* the next document when there is one; the request gets a response from a pass
\* only after the last document, and then 400 for insufficient content or the
\* error of the missing API key, never the error of a document; a pass whose
\* document failed with an error leaves the store and the parts as they were.
C11_FailuresIsolated ==
  [][(an.pc \in {"recover", "build"} /\ an' # an) =>
       /\ an.j < Len(LoopDocs) =>
            /\ an'.pc = an.pc
            /\ an'.j = an.j + 1
            /\ an'.weak = an.weak /\ an'.pdfDocs = an.pdfDocs /\ an'.selected = an.selected
       /\ an'.pc # an.pc => an.j = Len(LoopDocs)
       /\ an'.pc = "idle" =>
            \/ an'.response.status = 400 /\ an'.response.error = InsufficientMessage
            \/ /\ ~env.apiKey
               /\ an'.response = [status |-> 500, error |-> ErrNoKey, retryAfterSeconds |-> Undefined]
       /\ Len(an'.warned) > Len(an.warned) =>
            /\ an'.warned = Append(an.warned, LoopDocs[an.j])
            /\ documents' = documents
            /\ an'.parts = an.parts]_vars

\* In one request the first of two weak PDFs failed to download in the recovery
\* loop and again in the part-building loop, the second was attached, and the
\* model answered.
C11_Witness ==
  /\ an.pc = "idle" /\ an.response.status = 200
  /\ Len(an.weak) = 2 /\ Len(an.pdfDocs) = 2
  /\ an.warned = <<an.weak[1], an.pdfDocs[1]>>
  /\ Len(an.parts) = 2
  /\ an.parts[1].text = <<"S","o","u","r","c","e"," ","D","o","c","u","m","e","n","t",":"," ">> \o documents[an.pdfDocs[2]].name

(***************************************************************************)
(* Properties of the multimodal mode                                       *)
(***************************************************************************)

\* The request is past OCR recovery and its documents' text is below the threshold.
Multimodal == Measured /\ SelectedSignal < minAnalysisSignal

\* The text of the selected documents, one after the other with a blank line between.
SelectedText == join([i \in 1..Len(an.selected) |-> documents[an.selected[i]].text], <<"\n","\n">>)

C13_AsStated ==
  \A i \in 1..Len(documents) :
    documents[i].sourceForAnalysis # JNull =>
      getSignalLength(documents[i].text) < minAnalysisSignal

\* C13, amended: a document is stored with a retained payload exactly when its
\* media type names pdf and its text at upload is below the analysis threshold,
\* the payload being the base64 of the uploaded bytes; no later step changes or
\* drops the payload, and a document's text changes only in a pass of OCR
\* recovery over it, as a weak PDF, to a text that is not empty.
C13_PayloadDecidedAtUpload ==
  [][/\ \A i \in 1..Len(documents) :
          /\ documents'[i].sourceForAnalysis = documents[i].sourceForAnalysis
          /\ documents'[i].text # documents[i].text =>
               /\ an.pc = "recover" /\ an.weak[an.j] = i
               /\ getSignalLength(documents[i].text) < minAnalysisSignal
               /\ documents'[i].text # <<>>
     /\ \A i \in (Len(documents) + 1)..Len(documents') :
          IF includes(documents'[i].mimetype, <<"p","d","f">>)
             /\ getSignalLength(documents'[i].text) < minAnalysisSignal
          THEN /\ documents'[i].sourceForAnalysis # JNull
               /\ documents'[i].sourceForAnalysis.data = toBase64(cloud'[documents'[i].cloudinary.url])
          ELSE documents'[i].sourceForAnalysis = JNull]_vars

\* A document recovered by OCR has text above the threshold and its payload
\* still, and the request that recovered it was answered in text mode.
C13_Witness ==
  /\ an.pc = "idle" /\ an.response.status = 200
  /\ an.weak # <<>>
  /\ an.parts = <<>>
  /\ \E k \in 1..Len(an.weak) :
       /\ documents[an.weak[k]].sourceForAnalysis # JNull
       /\ getSignalLength(documents[an.weak[k]].text) >= minAnalysisSignal

SelectedPdfs ==
  SelectSeq(an.selected,
            LAMBDA id : \/ endsWith(toLowerCase(documents[id].name), <<".","p","d","f">>)
                        \/ includes(documents[id].mimetype, <<"p","d","f">>))

\* The first maxMultimodalDocs of them.
TriedPdfs ==
  SubSeq(SelectedPdfs, 1,
         IF Len(SelectedPdfs) < maxMultimodalDocs THEN Len(SelectedPdfs) ELSE maxMultimodalDocs)

\* The document has a retained payload of 1 to maxMultimodalBytes bytes: its
\* bytes can always be retrieved and attached.
PayloadAttachable(id) ==
  /\ documents[id].sourceForAnalysis # JNull
  /\ Len(fromBase64(documents[id].sourceForAnalysis.data)) \in 1..maxMultimodalBytes

\* C17 as stated: in multimodal mode, with the API key set, a request that has
\* its response and has among its selected PDFs one with an attachable payload
\* was not answered 400, has parts, and has called the model.
C17_AsStated ==
  (Multimodal /\ an.pc = "idle" /\ env.apiKey
   /\ \E k \in 1..Len(SelectedPdfs) : PayloadAttachable(SelectedPdfs[k])) =>
    /\ an.response.status # 400
    /\ an.parts # <<>>
    /\ an.calls # <<>>

\* C17, amended: in multimodal mode, once the part building is over, a request
\* with an attachable payload among the first maxMultimodalDocs selected PDFs
\* has parts and, with the API key set, calls the model (without the key it is
\* answered 500 and the model is not called); and a request answered 400 has none
\* attachable among those first PDFs: each has a payload that is empty or over
\* the byte cap, or has no payload and failed to download or has a remote copy
\* that is empty or over the cap.
C17_InsufficientOnlyIfNoneTried ==
  (Multimodal /\ an.pc # "build") =>
    /\ (\E k \in 1..Len(TriedPdfs) : PayloadAttachable(TriedPdfs[k])) =>
         /\ an.parts # <<>>
         /\ IF env.apiKey
            THEN an.pc \in {"call1", "call2"} \/ an.calls # <<>>
            ELSE /\ an.pc = "idle" /\ an.calls = <<>>
                 /\ an.response.status = 500 /\ an.response.error = ErrNoKey
    /\ (an.pc = "idle" /\ an.response.status = 400) =>
         \A k \in 1..Len(TriedPdfs) :
           IF documents[TriedPdfs[k]].sourceForAnalysis # JNull
           THEN ~PayloadAttachable(TriedPdfs[k])
           ELSE \/ \E w \in 1..Len(an.warned) : an.warned[w] = TriedPdfs[k]
                \/ Len(cloud[documents[TriedPdfs[k]].cloudinary.url]) \notin 1..maxMultimodalBytes

\* With one file allowed, two PDFs were selected, the first over the byte cap
\* and the second with an attachable payload, and the request was answered 400.
C17_Witness ==
  /\ Multimodal /\ an.pc = "idle"
  /\ env.apiKey
  /\ an.response.status = 400
  /\ maxMultimodalDocs = 1
  /\ Len(SelectedPdfs) = 2
  /\ ~PayloadAttachable(SelectedPdfs[1])
  /\ PayloadAttachable(SelectedPdfs[2])

(***************************************************************************)
(* Properties of OCR                                                       *)
(***************************************************************************)

\* C15: extractTextFromPdfBufferWithGemini returns in the end; what it returns
\* is a string and never an error: "" without key or bytes, "" when the timer
\* fired first or the call failed or its response gave no text, and the text of
\* the response otherwise; once it has returned, its result stays what it is,
\* whatever settles later.
C15_OcrBestEffort ==
  /\ [](fn.pc = "returned" =>
          /\ fn.out.ok
          /\ fn.out.val \in {a.text : a \in OcrAnswers}
          /\ fn.out.val =
               IF ~env.apiKey \/ Len(fn.buffer) = 0 \/ fn.timer = "fired" THEN <<>>
               ELSE IF fn.call.answer.kind = "text" THEN fn.call.answer.text
               ELSE <<>>)
  /\ [][fn.pc = "returned" => fn'.pc = "returned" /\ fn'.out = fn.out]_vars
  /\ <>(fn.pc = "returned")

\* The timer fired, "" was returned, and the model's answer, a text, came after.
C15_Witness ==
  /\ fn.op = "ocr" /\ fn.pc = "returned"
  /\ fn.timer = "fired"
  /\ fn.call.state = "settled"
  /\ fn.call.answer.kind = "text" /\ fn.call.answer.text # <<>>
  /\ fn.out = Returned(<<>>)

====
